---- MODULE Spec2Model ----
(***************************************************************************)
(* schediazo: the ordered container PartDict (source/schediazo/part.py).   *)
(* A PartDict is a dict whose iteration order is kept in a doubly linked   *)
(* list of keys: __map holds one node (prev, next, key) per key, __head    *)
(* and __tail hold the keys of the two ends.                               *)
(***************************************************************************)
EXTENDS Integers, Sequences, FiniteSets, TLC

\* Keys are 1..NumKeys.
NumKeys == 3

Keys == 1..NumKeys

\* Python's None, as the value of __head, __tail, node.prev and node.next.
None == 0

\* The values handed to the container: a PartBase for every id, a nested
\* PartDict that shares the id 1, and a str, which is no part and has no id.
Objects ==
    {[cls |-> "PartBase", id |-> k] : k \in Keys}
        \cup {[cls |-> "PartDict", id |-> 1], [cls |-> "str", id |-> None]}

\* No value: the argument of a call that takes none.
NoValue == [cls |-> "NoneType", id |-> None]

ObjClass(o) == o.cls

\* part.id (a str has no attribute id).
HasId(o) == ObjClass(o) \in {"PartBase", "PartDict"}

ObjId(o) == o.id

\* isinstance(value, (PartBase, PartDict))
IsPart(o) == ObjClass(o) \in {"PartBase", "PartDict"}

VARIABLES
    items,    \* the inherited dict storage: key -> value
    map,      \* self.__map: key -> node
    head,     \* self.__head
    tail,     \* self.__tail
    back,     \* self.__back: "unset" until _list_remove assigns it
    front,    \* self.__front: "unset" until _list_remove assigns it
    last,     \* the last call: its name, arguments and outcome
    hins,     \* keys given to _list_insert_head since the container was empty
    tins,     \* keys given to _list_insert_tail since the container was empty
    insOnly,  \* only _list_insert_head/_list_insert_tail ran since it was empty
    emitted,  \* what the last create_element/save put under the root element
    operations, \* Affine._operations, the latest call first
    units,    \* Affine._units: "None" until a length argument sets it
    matrix,   \* Affine._matrix: NoMatrix until build_matrix caches it
    calls,    \* the operations of the fluent calls that returned, in call order
    alast,    \* the last call on the Affine: its name, arguments and outcome
    angledim, \* what the unit registry does with the dimension "[angle]"
    entity,   \* the trait bundle or shape constructed, or the exception raised
    element,  \* the element given to its set_element_attributes
    conversion, \* the last call of _tostr or _scale: its arguments and outcome
    path,     \* the RawPath: its members and its closed flag
    pcall,    \* the last call on the RawPath: its name, outcome and string
    solver    \* two_point_align: its position, counters and outcome

dictvars == <<items, map, head, tail, back, front, last, hins, tins, insOnly,
              emitted>>

affvars == <<operations, units, matrix, calls, alast, angledim>>

traitvars == <<entity, element>>

unitvars == <<conversion>>

pathvars == <<path, pcall>>

alignvars == <<solver>>

vars == <<items, map, head, tail, back, front, last, hins, tins, insOnly,
          emitted, operations, units, matrix, calls, alast, angledim,
          entity, element, conversion, path, pcall, solver>>

----------------------------------------------------------------------------
\* The linked list as a value: the fields the _list_* methods read and write,
\* and err, the exception a method left with ("none": it returned).

Cur == [map |-> map, head |-> head, tail |-> tail, back |-> back,
        front |-> front, err |-> "none"]

Node(p, n, k) == [prev |-> p, next |-> n, key |-> k]

\* self.__map[key] = node
Put(m, key, node) == [x \in (DOMAIN m) \cup {key} |-> IF x = key THEN node ELSE m[x]]

\* self.__map.pop(key)
Pop(m, key) == [x \in (DOMAIN m) \ {key} |-> m[x]]

Raise(s, e) == [s EXCEPT !.err = e]

EmptyMap == [x \in {} |-> Node(None, None, None)]

\* __iter__: the keys yielded from the head along next, and whether the
\* generator ended with an exception. A key is yielded before its node is
\* looked up. fuel bounds the walk: a walk that outlives it is on a cycle.
RECURSIVE IterFrom(_, _, _)
IterFrom(m, current, fuel) ==
    IF current = None THEN [keys |-> <<>>, err |-> "none"]
    ELSE IF fuel = 0 THEN [keys |-> <<>>, err |-> "cycle"]
    ELSE IF current \notin DOMAIN m THEN [keys |-> <<current>>, err |-> "KeyError"]
    ELSE LET rest == IterFrom(m, m[current].next, fuel - 1)
         IN  [keys |-> <<current>> \o rest.keys, err |-> rest.err]

iter(s) == IterFrom(s.map, s.head, Cardinality(DOMAIN s.map) + 1)

\* __reversed__: the same from the tail along prev.
RECURSIVE ReversedFrom(_, _, _)
ReversedFrom(m, current, fuel) ==
    IF current = None THEN [keys |-> <<>>, err |-> "none"]
    ELSE IF fuel = 0 THEN [keys |-> <<>>, err |-> "cycle"]
    ELSE IF current \notin DOMAIN m THEN [keys |-> <<current>>, err |-> "KeyError"]
    ELSE LET rest == ReversedFrom(m, m[current].prev, fuel - 1)
         IN  [keys |-> <<current>> \o rest.keys, err |-> rest.err]

reversed(s) == ReversedFrom(s.map, s.tail, Cardinality(DOMAIN s.map) + 1)

----------------------------------------------------------------------------
\* The list primitives.

list_insert_tail(s, key) ==
    IF s.head = None /\ s.tail = None
    THEN [s EXCEPT !.tail = key, !.head = key,
                   !.map = Put(s.map, key, Node(None, None, key))]
    ELSE LET old_tail == s.tail
         IN  IF old_tail \notin DOMAIN s.map THEN Raise(s, "KeyError")
             ELSE [s EXCEPT !.tail = key,
                       !.map = Put([s.map EXCEPT ![old_tail].next = key],
                                   key, Node(old_tail, None, key))]

\* list_insert_head with the assignment of the end copied from
\* list_insert_tail: the new key becomes the tail, not the head.
list_insert_head_sets_tail(s, key) ==
    IF s.head = None /\ s.tail = None
    THEN [s EXCEPT !.tail = key, !.head = key,
                   !.map = Put(s.map, key, Node(None, None, key))]
    ELSE LET old_head == s.head
         IN  IF old_head \notin DOMAIN s.map THEN Raise(s, "KeyError")
             ELSE [s EXCEPT !.tail = key,
                       !.map = Put([s.map EXCEPT ![old_head].prev = key],
                                   key, Node(None, old_head, key))]

list_insert_head(s, key) ==
    IF s.head = None /\ s.tail = None
    THEN [s EXCEPT !.tail = key, !.head = key,
                   !.map = Put(s.map, key, Node(None, None, key))]
    ELSE LET old_head == s.head
         IN  IF old_head \notin DOMAIN s.map THEN Raise(s, "KeyError")
             ELSE [s EXCEPT !.head = key,
                       !.map = Put([s.map EXCEPT ![old_head].prev = key],
                                   key, Node(None, old_head, key))]

list_remove(s, key) ==
    IF key \notin DOMAIN s.map THEN Raise(s, "KeyError")
    ELSE IF ~(s.head # None /\ s.tail # None) THEN s
    ELSE IF Cardinality(DOMAIN s.map) = 1
    THEN \* pops the node and assigns __back and __front; __head and
         \* __tail are not assigned
         [s EXCEPT !.map = Pop(s.map, key), !.back = "None", !.front = "None"]
    ELSE IF s.head = key
    THEN LET new_head == s.map[key].next
         IN  IF new_head \notin DOMAIN s.map
             THEN Raise([s EXCEPT !.head = new_head], "KeyError")
             ELSE [s EXCEPT !.head = new_head,
                       !.map = Pop([s.map EXCEPT ![new_head].prev = None], key)]
    ELSE IF s.tail = key
    THEN LET new_tail == s.map[key].prev
         IN  IF new_tail \notin DOMAIN s.map
             THEN Raise([s EXCEPT !.tail = new_tail], "KeyError")
             ELSE [s EXCEPT !.tail = new_tail,
                       !.map = Pop([s.map EXCEPT ![new_tail].next = None], key)]
    ELSE LET link_prev == s.map[key].prev
             link_next == s.map[key].next
         IN  IF link_next \notin DOMAIN s.map THEN Raise(s, "KeyError")
             ELSE IF link_prev \notin DOMAIN s.map
             THEN Raise([s EXCEPT !.map[link_next].prev = link_prev], "KeyError")
             ELSE [s EXCEPT !.map =
                       Pop([[s.map EXCEPT ![link_next].prev = link_prev]
                                EXCEPT ![link_prev].next = link_next], key)]

list_insert_after(s, key, after_key) ==
    IF after_key \notin DOMAIN s.map THEN Raise(s, "KeyError")
    ELSE IF Cardinality(DOMAIN s.map) > 1
    THEN IF s.tail = after_key THEN list_insert_tail(s, key)
         ELSE LET tailward_key == s.map[after_key].next
                  headward_key == after_key
                  m1 == [s.map EXCEPT ![headward_key].next = key]
              IN  IF tailward_key \notin DOMAIN m1
                  THEN Raise([s EXCEPT !.map = m1], "KeyError")
                  ELSE [s EXCEPT !.map =
                            Put([m1 EXCEPT ![tailward_key].prev = key], key,
                                Node(headward_key, tailward_key, key))]
    ELSE \* a list of one key: nothing is inserted
         s

list_insert_before(s, key, before_key) ==
    IF before_key \notin DOMAIN s.map THEN Raise(s, "KeyError")
    ELSE IF Cardinality(DOMAIN s.map) > 1
    THEN IF s.head = before_key THEN list_insert_head(s, key)
         ELSE LET headward_key == s.map[before_key].prev
                  tailward_key == before_key
              IN  IF headward_key \notin DOMAIN s.map THEN Raise(s, "KeyError")
                  ELSE [s EXCEPT !.map =
                            Put([[s.map EXCEPT ![headward_key].next = key]
                                     EXCEPT ![tailward_key].prev = key], key,
                                Node(headward_key, tailward_key, key))]
    ELSE \* a list of one key: nothing is inserted
         s

\* list_movetohead that moves the key one step only: it is inserted before the
\* key that preceded it.
list_movetohead_one_step(s, key) ==
    IF key \notin DOMAIN s.map THEN Raise(s, "KeyError")
    ELSE IF Cardinality(DOMAIN s.map) > 1 /\ ~(s.head = key)
    THEN LET prev == s.map[key].prev
             s1 == list_remove(s, key)
         IN  IF s1.err # "none" THEN s1 ELSE list_insert_before(s1, key, prev)
    ELSE s

list_movetohead(s, key) ==
    IF key \notin DOMAIN s.map THEN Raise(s, "KeyError")
    ELSE IF Cardinality(DOMAIN s.map) > 1 /\ ~(s.head = key)
    THEN LET s1 == list_remove(s, key)
         IN  IF s1.err # "none" THEN s1 ELSE list_insert_head(s1, key)
    ELSE s

\* list_movetotail that puts the removed key back at the head.
list_movetotail_to_head(s, key) ==
    IF key \notin DOMAIN s.map THEN Raise(s, "KeyError")
    ELSE IF Cardinality(DOMAIN s.map) > 1 /\ ~(s.tail = key)
    THEN LET s1 == list_remove(s, key)
         IN  IF s1.err # "none" THEN s1 ELSE list_insert_head(s1, key)
    ELSE s

list_movetotail(s, key) ==
    IF key \notin DOMAIN s.map THEN Raise(s, "KeyError")
    ELSE IF Cardinality(DOMAIN s.map) > 1 /\ ~(s.tail = key)
    THEN LET s1 == list_remove(s, key)
         IN  IF s1.err # "none" THEN s1 ELSE list_insert_tail(s1, key)
    ELSE s

list_movetowardstail(s, key) ==
    IF key \notin DOMAIN s.map THEN Raise(s, "KeyError")
    ELSE IF Cardinality(DOMAIN s.map) > 1 /\ ~(s.tail = key)
    THEN LET next == s.map[key].next
             s1 == list_remove(s, key)
         IN  IF s1.err # "none" THEN s1 ELSE list_insert_after(s1, key, next)
    ELSE s

list_movetowardshead(s, key) ==
    IF key \notin DOMAIN s.map THEN Raise(s, "KeyError")
    ELSE IF Cardinality(DOMAIN s.map) > 1 /\ ~(s.head = key)
    THEN LET prev == s.map[key].prev
             s1 == list_remove(s, key)
         IN  IF s1.err # "none" THEN s1 ELSE list_insert_before(s1, key, prev)
    ELSE s

----------------------------------------------------------------------------
\* The container's methods. Each takes the dict storage and the list and
\* gives both back, with the exception the call left with.

Box(it, s) == [items |-> it, list |-> s]

\* __setitem__ without the test "key not in self": a key that is present is
\* appended to the list again.
setitem_always_inserts(it, s, key, value) ==
    IF ~IsPart(value) THEN Box(it, Raise(s, "TypeError"))
    ELSE LET s1 == list_insert_tail(s, key)
         IN  IF s1.err # "none" THEN Box(it, s1)
             ELSE Box(Put(it, key, value), s1)

setitem(it, s, key, value) ==
    IF ~IsPart(value) THEN Box(it, Raise(s, "TypeError"))
    ELSE IF key \notin DOMAIN it
    THEN LET s1 == list_insert_tail(s, key)
         IN  IF s1.err # "none" THEN Box(it, s1)
             ELSE Box(Put(it, key, value), s1)
    ELSE Box(Put(it, key, value), s)

add(it, s, part) ==
    IF ~HasId(part) THEN Box(it, Raise(s, "AttributeError"))
    ELSE setitem(it, s, ObjId(part), part)

delitem(it, s, key) ==
    IF key \notin DOMAIN it THEN Box(it, Raise(s, "KeyError"))
    ELSE Box(Pop(it, key), list_remove(s, key))

\* The dict methods PartDict inherits without overriding them. They are
\* dict's own and work on the dict storage directly: none of them calls
\* __setitem__ or __delitem__, so the list is left as it was and no value is
\* tested with isinstance.

\* d.pop(key)
dict_pop(it, s, key) ==
    IF key \notin DOMAIN it THEN Box(it, Raise(s, "KeyError"))
    ELSE Box(Pop(it, key), s)

\* d.popitem() of a container whose dict storage holds at most the key given
\* (key is None for the empty one, which raises KeyError).
dict_popitem(it, s, key) ==
    IF key = None THEN Box(it, Raise(s, "KeyError"))
    ELSE Box(Pop(it, key), s)

\* d.update({key: value})
dict_update(it, s, key, value) == Box(Put(it, key, value), s)

\* d.setdefault(key, value)
dict_setdefault(it, s, key, value) ==
    IF key \in DOMAIN it THEN Box(it, s)
    ELSE Box(Put(it, key, value), s)

clear(it, s) ==
    Box([x \in {} |-> NoValue],
        [s EXCEPT !.head = None, !.tail = None, !.map = EmptyMap])

movetofront(it, s, key) ==
    IF ~(key \in DOMAIN s.map) THEN Box(it, Raise(s, "KeyError"))
    ELSE Box(it, list_movetotail(s, key))

movetoback(it, s, key) ==
    IF ~(key \in DOMAIN s.map) THEN Box(it, Raise(s, "KeyError"))
    ELSE Box(it, list_movetohead(s, key))

moveforward(it, s, key) ==
    IF ~(key \in DOMAIN s.map) THEN Box(it, Raise(s, "KeyError"))
    ELSE Box(it, list_movetowardstail(s, key))

movebackward(it, s, key) ==
    IF ~(key \in DOMAIN s.map) THEN Box(it, Raise(s, "KeyError"))
    ELSE Box(it, list_movetowardshead(s, key))

----------------------------------------------------------------------------
\* The state machine. One action per call; a call that raises keeps what it
\* wrote before the exception.

\* transforms.py and units.py: quantities, the operation classes and Affine.

\* Numbers are exact fractions: the floats of the code are taken without
\* their rounding, so that 1 mm is 1/10 cm.
Abs(x) == IF x < 0 THEN -x ELSE x

RECURSIVE GCD(_, _)
GCD(a, b) == IF b = 0 THEN a ELSE GCD(b, a % b)

\* the fraction n/d in lowest terms, d > 0
Rat(n, d) ==
    LET g == GCD(Abs(n), Abs(d))
        s == IF d < 0 THEN -1 ELSE 1
    IN  [n |-> (s * n) \div g, d |-> (s * d) \div g]

\* a whole number as a fraction
Whole(n) == [n |-> n, d |-> 1]

\* a * b, the common factors taken out before the products are made
RatMul(a, b) ==
    IF a.d = 1 /\ b.d = 1 THEN Whole(a.n * b.n)
    ELSE LET x == Rat(a.n, b.d)
             y == Rat(b.n, a.d)
         IN  Rat(x.n * y.n, x.d * y.d)

RatDiv(a, b) == RatMul(a, Rat(b.d, b.n))

RatAdd(a, b) ==
    IF a.d = 1 /\ b.d = 1 THEN Whole(a.n + b.n) ELSE Rat(a.n * b.d + b.n * a.d, a.d * b.d)

\* A pint quantity: magnitude and unit, the magnitude a fraction.
QR(r, u) == [m |-> r, u |-> u]

\* m * unit for a whole number m
Q(m, u) == QR(Whole(m), u)

\* an argument left out (x=None, y=None)
NoneQ == Q(0, "None")

\* a plain float passed where a quantity is expected
Float(m) == Q(m, "float")

\* isinstance(q, pint.Quantity)
IsQuantity(q) == q.u \notin {"float", "None"}

\* The dimension of a unit of the registry (units.py lines 19-34).
Dimension(u) ==
    CASE u \in {"mm", "cm", "inch", "ft", "pt", "pc"} -> "[length]"
      [] u = "px" -> "[pixel]"
      [] u = "device" -> "[device]"
      [] u = "percent" -> "[percentage]"
      [] u \in {"deg", "rad"} -> "[]"
      [] OTHER -> "none"

\* How many mm a unit of length is (inch = 25.4 mm, foot = 12 inch,
\* point = inch / 72, pica = inch / 6) and how many radians a degree is
\* (pi / 180, with pi taken as the fraction 5419351 / 1725033, which is
\* within 3e-14 of it); 1 for the units of the other dimensions, each the
\* only unit of its dimension here.
Factor(u) ==
    CASE u = "cm" -> Whole(10)
      [] u = "deg" -> Rat(5419351, 180 * 1725033)
      [] u = "inch" -> Rat(254, 10)
      [] u = "ft" -> Rat(3048, 10)
      [] u = "pt" -> Rat(254, 720)
      [] u = "pc" -> Rat(254, 60)
      [] OTHER -> Whole(1)

\* q.check(dimension), q.check(unit): dimensions are compared, units are not.
check(q, dim) == Dimension(q.u) = dim

checkUnits(q, unit) == Dimension(q.u) = Dimension(unit)

\* q.to(unit), for a unit of q's dimension
to(q, unit) == QR(RatDiv(RatMul(q.m, Factor(q.u)), Factor(unit)), unit)

\* angle.check("[angle]"). The registry of units.py defines radian as
\* dimensionless and defines no dimension "[angle]", so the check never
\* answers: pint raises for a dimension the registry does not define,
\* KeyError or ValueError depending on the release.
AngleDims == {"KeyError", "ValueError"}

AngleCheck(q, reg) == reg

\* the magnitude of an angle in degrees, to the nearest whole number
Degrees(angle) ==
    LET d == to(angle, "deg").m
    IN  (2 * d.n + d.d) \div (2 * d.d)

\* math.cos and math.sin of an angle in degrees, a whole number of quarter turns
Cos(d) == CASE d % 360 = 0 -> 1 [] d % 360 = 90 -> 0 [] d % 360 = 180 -> -1 [] OTHER -> 0

Sin(d) == CASE d % 360 = 0 -> 0 [] d % 360 = 90 -> 1 [] d % 360 = 180 -> 0 [] OTHER -> -1

\* math.tan of an angle in degrees, an odd number of eighth turns or a whole
\* number of half turns
Tan(d) == CASE d % 180 = 0 -> 0 [] d % 180 = 45 -> 1 [] OTHER -> -1

\* a row and an array of whole numbers
WholeRow(r) == <<Whole(r[1]), Whole(r[2]), Whole(r[3])>>

Whole3(M) == <<WholeRow(M[1]), WholeRow(M[2]), WholeRow(M[3])>>

\* np.identity(3)
Identity3 == Whole3(<< <<1, 0, 0>>, <<0, 1, 0>>, <<0, 0, 1>> >>)

NoMatrix == <<>>

Dot(A, B, i, j) ==
    RatAdd(RatAdd(RatMul(A[i][1], B[1][j]), RatMul(A[i][2], B[2][j])),
           RatMul(A[i][3], B[3][j]))

\* np.matmul(A, B)
matmul(A, B) ==
    << <<Dot(A, B, 1, 1), Dot(A, B, 1, 2), Dot(A, B, 1, 3)>>,
       <<Dot(A, B, 2, 1), Dot(A, B, 2, 2), Dot(A, B, 2, 3)>>,
       <<Dot(A, B, 3, 1), Dot(A, B, 3, 2), Dot(A, B, 3, 3)>> >>

\* np.matmul(M, [u, v, 1.0]): the first two components
MatVec(M, u, v) ==
    [p |-> RatAdd(RatAdd(RatMul(M[1][1], u), RatMul(M[1][2], v)), M[1][3]),
     q |-> RatAdd(RatAdd(RatMul(M[2][1], u), RatMul(M[2][2], v)), M[2][3])]

\* What a constructor gives: the exception it raised, or the operation with
\* its matrix property and the unit of its lengths ("None": it has none).
Made(kind, m, u) == [err |-> "none", op |-> [kind |-> kind, m |-> m, u |-> u]]

Failed(e) == [err |-> e, op |-> [kind |-> "none", m |-> NoMatrix, u |-> "None"]]

\* Translate.__init__ and Translate.matrix
Translate(x, y) ==
    IF ~IsQuantity(x) \/ ~IsQuantity(y) THEN Failed("TypeError")
    ELSE IF ~(check(x, "[length]") \/ check(x, "[pixel]") \/ check(x, "[device]"))
    THEN Failed("TypeError")
    ELSE IF x.u # y.u THEN Failed("ValueError")
    ELSE Made("Translate",
              << <<Whole(1), Whole(0), x.m>>, <<Whole(0), Whole(1), y.m>>,
                 WholeRow(<<0, 0, 1>>) >>,
              x.u)

\* Scale.__init__ and Scale.matrix
Scale(sx, sy) ==
    Made("Scale", Whole3(<< <<sx, 0, 0>>, <<0, sy, 0>>, <<0, 0, 1>> >>), "None")

\* Rotate.__init__ and Rotate.matrix. The origin's check method is called
\* before the isinstance tests: an x that is no quantity has no such method.
Rotate(angle, x, y, reg) ==
    IF (x # NoneQ) # (y # NoneQ) THEN Failed("ValueError")
    ELSE IF x # NoneQ /\ y # NoneQ /\ ~IsQuantity(x) THEN Failed("AttributeError")
    ELSE IF x # NoneQ /\ y # NoneQ
            /\ (~check(x, "[length]") \/ ~check(x, "[pixel]") \/ ~check(x, "[device]"))
    THEN Failed("TypeError")
    ELSE IF x # NoneQ /\ y # NoneQ /\ x.u # y.u THEN Failed("ValueError")
    ELSE IF ~IsQuantity(angle) THEN Failed("TypeError")
    ELSE IF AngleCheck(angle, reg) \in {"KeyError", "ValueError"}
    THEN Failed(AngleCheck(angle, reg))
    ELSE IF AngleCheck(angle, reg) = "False" THEN Failed("ValueError")
    ELSE Made("Rotate",
              << WholeRow(<<Cos(Degrees(angle)), -Sin(Degrees(angle)), 0>>),
                 WholeRow(<<Sin(Degrees(angle)), Cos(Degrees(angle)), 0>>),
                 IF x # NoneQ THEN <<x.m, y.m, Whole(1)>> ELSE WholeRow(<<0, 0, 1>>) >>,
              x.u)

\* SkewX.__init__ and SkewX.matrix
SkewX(angle, reg) ==
    IF ~IsQuantity(angle) THEN Failed("TypeError")
    ELSE IF AngleCheck(angle, reg) \in {"KeyError", "ValueError"}
    THEN Failed(AngleCheck(angle, reg))
    ELSE IF AngleCheck(angle, reg) = "False" THEN Failed("TypeError")
    ELSE Made("SkewX",
              Whole3(<< <<1, Tan(Degrees(angle)), 0>>, <<0, 1, 0>>, <<0, 0, 1>> >>), "None")

\* SkewY.__init__ and SkewY.matrix
SkewY(angle, reg) ==
    IF ~IsQuantity(angle) THEN Failed("TypeError")
    ELSE IF AngleCheck(angle, reg) \in {"KeyError", "ValueError"}
    THEN Failed(AngleCheck(angle, reg))
    ELSE IF AngleCheck(angle, reg) = "False" THEN Failed("TypeError")
    ELSE Made("SkewY",
              Whole3(<< <<1, 0, 0>>, <<Tan(Degrees(angle)), 1, 0>>, <<0, 0, 1>> >>), "None")

\* Shear.__init__ and Shear.matrix
Shear(sx, sy) ==
    Made("Shear", Whole3(<< <<1, sx, 0>>, <<sy, 1, 0>>, <<0, 0, 1>> >>), "None")

\* Reflect, ReflectX and ReflectY: Scale constructed with -1.0 on the axes
\* reflected, the matrix property inherited from Scale.
Reflect == [Scale(-1, -1) EXCEPT !.op.kind = "Reflect"]

ReflectX == [Scale(-1, 1) EXCEPT !.op.kind = "ReflectX"]

ReflectY == [Scale(1, -1) EXCEPT !.op.kind = "ReflectY"]

SixMatrix_row_major(a, b, c, d, e, f) ==
    Made("SixMatrix", Whole3(<< <<a, b, e>>, <<c, d, f>>, <<0, 0, 1>> >>), "None")

\* SixMatrix.__init__ and SixMatrix.matrix
SixMatrix(a, b, c, d, e, f) ==
    Made("SixMatrix", Whole3(<< <<a, c, e>>, <<b, d, f>>, <<0, 0, 1>> >>), "None")

\* An Affine as a value: its three fields, and err, the exception a method
\* left with.
Affine(ops, un, mx) == [operations |-> ops, units |-> un, matrix |-> mx, err |-> "none"]

\* identity(): Affine.__init__
identity == Affine(<<>>, "None", NoMatrix)

\* self._operations.insert(0, op)
insert0(a, op) == [a EXCEPT !.operations = <<op>> \o @]

\* The unit bookkeeping translate and rotate share: the first length argument
\* sets the Affine's unit, a later one is checked against it.
SetUnits(a, x, y) ==
    IF a.units # "None"
    THEN IF ~checkUnits(x, a.units) \/ ~checkUnits(y, a.units)
         THEN Raise(a, "ValueError")
         ELSE a
    ELSE [a EXCEPT !.units = x.u]

\* Affine.translate: the operation is constructed, inserted, and then the
\* units are looked at.
translate(a, tx, ty) ==
    LET c == Translate(tx, ty)
    IN  IF c.err # "none" THEN Raise(a, c.err)
        ELSE SetUnits(insert0(a, c.op), tx, ty)

\* Affine.rotate
rotate(a, angle, x, y, reg) ==
    LET c == Rotate(angle, x, y, reg)
    IN  IF c.err # "none" THEN Raise(a, c.err)
        ELSE IF x # NoneQ /\ y # NoneQ THEN SetUnits(insert0(a, c.op), x, y)
        ELSE insert0(a, c.op)

\* Affine.skewX
skewX(a, angle, reg) ==
    LET c == SkewX(angle, reg)
    IN  IF c.err # "none" THEN Raise(a, c.err) ELSE insert0(a, c.op)

\* Affine.skewY
skewY(a, angle, reg) ==
    LET c == SkewY(angle, reg)
    IN  IF c.err # "none" THEN Raise(a, c.err) ELSE insert0(a, c.op)

\* Affine.scale
scale(a, sx, sy) == insert0(a, Scale(sx, sy).op)

\* Affine.shear
shear(a, sx, sy) == insert0(a, Shear(sx, sy).op)

\* Affine.reflect
reflect(a) == insert0(a, Reflect.op)

\* Affine.reflectX
reflectX(a) == insert0(a, ReflectX.op)

\* Affine.reflectY
reflectY(a) == insert0(a, ReflectY.op)

\* Affine.sixmatrix
sixmatrix(a, p) == insert0(a, SixMatrix(p[1], p[2], p[3], p[4], p[5], p[6]).op)

\* build_matrix: M = identity; for op in self._operations: M = M @ op.matrix
RECURSIVE BuildFrom(_, _, _)
BuildFrom(M, ops, i) ==
    IF i > Len(ops) THEN M ELSE BuildFrom(matmul(M, ops[i].m), ops, i + 1)

build_matrix(a) == [a EXCEPT !.matrix = BuildFrom(Identity3, a.operations, 1)]

\* if self._matrix is None: self.build_matrix()
Built(a) == IF a.matrix = NoMatrix THEN build_matrix(a) ELSE a

\* Affine.__setitem__: aff[index] = value with a row of three numbers. The
\* matrix is built if there is none, then the row of the cached array is
\* overwritten; an index counts from the end when it is negative, and one
\* that is no row of the array raises IndexError.
Affine_setitem(a, index, value) ==
    LET b == Built(a)
    IN  IF index \notin -3..2 THEN Raise(b, "IndexError")
        ELSE [b EXCEPT !.matrix[(index % 3) + 1] = WholeRow(value)]

\* Affine.__getitem__ and an assignment into the row it returns,
\* aff[index][col] = value: the row is a view of the cached array.
Affine_getitem_assign(a, index, col, value) ==
    LET b == Built(a)
    IN  IF index \notin -3..2 \/ col \notin -3..2 THEN Raise(b, "IndexError")
        ELSE [b EXCEPT !.matrix[(index % 3) + 1][(col % 3) + 1] = Whole(value)]

\* What transform gives back: the transformed coordinates, or the exception.
Out(x, y, err) == [x |-> x, y |-> y, err |-> err]

\* transform(u, v) for two scalar quantities (lines 46-61)
transform_scalar(a, u, v) ==
    IF a.units # "None"
    THEN IF ~(checkUnits(u, a.units) /\ checkUnits(v, a.units))
         THEN Out(<<>>, <<>>, "ValueError")
         ELSE LET r == MatVec(a.matrix, to(u, a.units).m, to(v, a.units).m)
              IN  Out(<<QR(r.p, a.units)>>, <<QR(r.q, a.units)>>, "none")
    ELSE LET r == MatVec(a.matrix, u.m, v.m)
         IN  Out(<<QR(r.p, u.u)>>, <<QR(r.q, v.u)>>, "none")

\* transform(u, v) for two array quantities (lines 46-51, 63-75); an array
\* quantity has one unit, that of its first element here.
transform_array(a, u, v) ==
    IF a.units # "None" /\ ~(checkUnits(u[1], a.units) /\ checkUnits(v[1], a.units))
    THEN Out(<<>>, <<>>, "ValueError")
    ELSE IF Len(u) # Len(v) THEN Out(<<>>, <<>>, "ValueError")
    ELSE IF a.units # "None"
    THEN Out([i \in 1..Len(u) |->
                 QR(MatVec(a.matrix, to(u[i], a.units).m, to(v[i], a.units).m).p, a.units)],
             [i \in 1..Len(u) |->
                 QR(MatVec(a.matrix, to(u[i], a.units).m, to(v[i], a.units).m).q, a.units)],
             "none")
    ELSE Out([i \in 1..Len(u) |-> QR(MatVec(a.matrix, u[i].m, v[i].m).p, u[1].u)],
             [i \in 1..Len(u) |-> QR(MatVec(a.matrix, u[i].m, v[i].m).q, u[1].u)],
             "none")

\* transform(u, v) for two lists of quantities (lines 77-91): the points are
\* put in the unit of u[0] and multiplied as they are; self._units is not
\* looked at. Two empty lists have no u[0] (line 87).
transform_list(a, u, v) ==
    IF Len(u) # Len(v) THEN Out(<<>>, <<>>, "ValueError")
    ELSE IF \E i \in 1..Len(u) : ~IsQuantity(u[i]) \/ ~IsQuantity(v[i])
    THEN Out(<<>>, <<>>, "TypeError")
    ELSE IF Len(u) = 0 THEN Out(<<>>, <<>>, "IndexError")
    ELSE IF \E i \in 1..Len(u) : ~checkUnits(u[i], u[1].u) \/ ~checkUnits(v[i], u[1].u)
    THEN Out(<<>>, <<>>, "DimensionalityError")
    ELSE Out([i \in 1..Len(u) |->
                 QR(MatVec(a.matrix, to(u[i], u[1].u).m, to(v[i], u[1].u).m).p, u[1].u)],
             [i \in 1..Len(u) |->
                 QR(MatVec(a.matrix, to(u[i], u[1].u).m, to(v[i], u[1].u).m).q, u[1].u)],
             "none")

\* Affine.transform: the matrix is built if there is none, then the form of
\* the arguments decides. A scalar or an array that is not a quantity, with
\* no list or tuple on both sides, is left to the last branch (lines 93-94).
transform(a, form, u, v) ==
    CASE form \in {"scalar", "array"} /\ (~IsQuantity(u[1]) \/ ~IsQuantity(v[1])) ->
             Out(<<>>, <<>>, "TypeError")
      [] form = "scalar" -> transform_scalar(Built(a), u[1], v[1])
      [] form = "array" -> transform_array(Built(a), u, v)
      [] OTHER -> transform_list(Built(a), u, v)


----------------------------------------------------------------------------
\* The Affine driven through its fluent methods, its matrix property and
\* transform, with the arguments the tests use and some they leave out.

\* the longest chain of operations
MaxOps == 2

TranslateArgs ==
    { <<Q(1, "mm"), Q(0, "mm")>>, <<Q(1, "cm"), Q(1, "cm")>>,
      <<Q(1, "px"), Q(0, "px")>>, <<Q(1, "mm"), Q(1, "cm")>>,
      <<Q(90, "deg"), Q(90, "deg")>>, <<Float(1), Float(1)>> }

RotateArgs ==
    { <<Q(90, "deg"), NoneQ, NoneQ>>, <<Q(90, "deg"), Q(1, "mm"), NoneQ>>,
      <<Q(90, "deg"), NoneQ, Q(1, "mm")>>, <<Q(90, "deg"), Q(1, "mm"), Q(1, "mm")>>,
      <<Q(1, "mm"), NoneQ, NoneQ>>, <<Float(90), NoneQ, NoneQ>>,
      <<Q(90, "deg"), Float(1), Float(1)>> }

ScaleArgs == { <<2, 3>> }

SixMatrixArgs == { <<3, 1, -1, 3, 30, 40>> }

SkewArgs == { Q(45, "deg"), Q(1, "mm"), Float(45) }

ShearArgs == { <<2, 3>> }

\* aff[index] = row
SetItemArgs == { <<0, <<9, 9, 9>>>>, <<-1, <<9, 9, 9>>>>, <<3, <<9, 9, 9>>>> }

\* aff[index][col] = value
GetItemArgs == { <<0, 2, 5>>, <<-3, -1, 5>>, <<3, 0, 5>> }

\* The points given to transform: u and v coordinates. A scalar call takes
\* the one-point inputs; array and list calls take all of them.
Points ==
    { [u |-> <<Q(0, "mm")>>, v |-> <<Q(0, "mm")>>],
      [u |-> <<Q(10, "mm")>>, v |-> <<Q(10, "mm")>>],
      [u |-> <<Q(0, "px")>>, v |-> <<Q(0, "px")>>],
      [u |-> <<Q(1, "mm")>>, v |-> <<Float(2)>>],
      [u |-> <<Q(10, "mm"), Q(40, "mm"), Q(10, "mm"), Q(40, "mm")>>,
       v |-> <<Q(10, "mm"), Q(10, "mm"), Q(30, "mm"), Q(30, "mm")>>],
      [u |-> <<Q(0, "mm"), Q(10, "mm")>>, v |-> <<Q(0, "mm")>>] }

Forms == {"scalar", "array", "list"}

AffCur == Affine(operations, units, matrix)

NoOut == Out(<<>>, <<>>, "none")

\* The record of a call on the Affine.
ACall(op, res, angle, x, y, form, u, v, out) ==
    [op |-> op, res |-> res, angle |-> angle, x |-> x, y |-> y,
     form |-> form, u |-> u, v |-> v, out |-> out]

\* a = Affine()
AffineNew ==
    /\ operations = <<>>
    /\ units = "None"
    /\ matrix = NoMatrix
    /\ calls = <<>>
    /\ alast = ACall("init", "none", NoneQ, NoneQ, NoneQ, "none", <<>>, <<>>, NoOut)

\* The Affine after a call that gave a back.
AffBecomes(a) ==
    /\ operations' = a.operations
    /\ units' = a.units
    /\ matrix' = a.matrix
    /\ UNCHANGED <<dictvars, traitvars, angledim, unitvars, pathvars, alignvars>>

\* A fluent call: it is counted in calls when it returned self.
Fluent(op, a, angle, x, y) ==
    /\ AffBecomes(a)
    /\ calls' = IF a.err = "none" THEN Append(calls, a.operations[1]) ELSE calls
    /\ alast' = ACall(op, a.err, angle, x, y, "none", <<>>, <<>>, NoOut)

AffTranslate ==
    /\ Len(operations) < MaxOps
    /\ \E t \in TranslateArgs :
           Fluent("translate", translate(AffCur, t[1], t[2]), NoneQ, t[1], t[2])

AffRotate ==
    /\ Len(operations) < MaxOps
    /\ \E r \in RotateArgs :
           Fluent("rotate", rotate(AffCur, r[1], r[2], r[3], angledim), r[1], r[2], r[3])

AffScale ==
    /\ Len(operations) < MaxOps
    /\ \E p \in ScaleArgs :
           Fluent("scale", scale(AffCur, p[1], p[2]), NoneQ, NoneQ, NoneQ)

AffSixMatrix ==
    /\ Len(operations) < MaxOps
    /\ \E p \in SixMatrixArgs :
           Fluent("sixmatrix", sixmatrix(AffCur, p), NoneQ, NoneQ, NoneQ)

AffSkewX ==
    /\ Len(operations) < MaxOps
    /\ \E angle \in SkewArgs :
           Fluent("skewX", skewX(AffCur, angle, angledim), angle, NoneQ, NoneQ)

AffSkewY ==
    /\ Len(operations) < MaxOps
    /\ \E angle \in SkewArgs :
           Fluent("skewY", skewY(AffCur, angle, angledim), angle, NoneQ, NoneQ)

AffShear ==
    /\ Len(operations) < MaxOps
    /\ \E p \in ShearArgs :
           Fluent("shear", shear(AffCur, p[1], p[2]), NoneQ, NoneQ, NoneQ)

AffReflect ==
    /\ Len(operations) < MaxOps
    /\ Fluent("reflect", reflect(AffCur), NoneQ, NoneQ, NoneQ)

AffReflectX ==
    /\ Len(operations) < MaxOps
    /\ Fluent("reflectX", reflectX(AffCur), NoneQ, NoneQ, NoneQ)

AffReflectY ==
    /\ Len(operations) < MaxOps
    /\ Fluent("reflectY", reflectY(AffCur), NoneQ, NoneQ, NoneQ)

\* a.build_matrix()
AffBuildMatrix ==
    /\ AffBecomes(build_matrix(AffCur))
    /\ calls' = calls
    /\ alast' = ACall("build_matrix", "none", NoneQ, NoneQ, NoneQ, "none", <<>>, <<>>, NoOut)

\* a[index] = value
AffSetItem ==
    \E p \in SetItemArgs :
        LET a == Affine_setitem(AffCur, p[1], p[2])
        IN  /\ AffBecomes(a)
            /\ calls' = calls
            /\ alast' = ACall("setitem", a.err, NoneQ, NoneQ, NoneQ, "none", <<>>, <<>>, NoOut)

\* a[index][col] = value
AffGetItem ==
    \E p \in GetItemArgs :
        LET a == Affine_getitem_assign(AffCur, p[1], p[2], p[3])
        IN  /\ AffBecomes(a)
            /\ calls' = calls
            /\ alast' = ACall("getitem", a.err, NoneQ, NoneQ, NoneQ, "none", <<>>, <<>>, NoOut)

\* a.matrix
AffMatrix ==
    /\ AffBecomes(Built(AffCur))
    /\ calls' = calls
    /\ alast' = ACall("matrix", "none", NoneQ, NoneQ, NoneQ, "none", <<>>, <<>>, NoOut)

\* a.transform(u, v), a(u, v)
\* a(u, v): the matrix is built first, whatever the arguments are (lines
\* 43-44), and the call goes on with the Affine that holds it.
AffTransform ==
    LET b == Built(AffCur)
    IN  \E form \in Forms, pt \in Points :
            /\ form = "scalar" => Len(pt.u) = 1 /\ Len(pt.v) = 1
            /\ AffBecomes(b)
            /\ calls' = calls
            /\ alast' = LET out == transform(b, form, pt.u, pt.v)
                        IN  ACall("transform", out.err, NoneQ, NoneQ, NoneQ,
                                  form, pt.u, pt.v, out)

NextAffine ==
    \/ AffTranslate
    \/ AffRotate
    \/ AffScale
    \/ AffSixMatrix
    \/ AffSkewX
    \/ AffSkewY
    \/ AffShear
    \/ AffReflect
    \/ AffReflectX
    \/ AffReflectY
    \/ AffBuildMatrix
    \/ AffSetItem
    \/ AffGetItem
    \/ AffMatrix
    \/ AffTransform

\* The Affine built by its fluent methods and read through matrix,
\* build_matrix and transform: no element of the cached matrix is assigned
\* from outside. One method stands for each kind of matrix: skewX for the
\* two skews, reflect for the three reflections (NextAffine has them all).
NextFluent ==
    \/ AffTranslate
    \/ AffRotate
    \/ AffScale
    \/ AffSixMatrix
    \/ AffSkewX
    \/ AffShear
    \/ AffReflect
    \/ AffBuildMatrix
    \/ AffMatrix
    \/ AffTransform

----------------------------------------------------------------------------
\* attributes.py and shapes.py: the trait bundles and Line, constructed and
\* then emitted into an element.

\* A Python value given as an argument: its type t; m, the number it holds
\* (a float in tenths: 11 is 1.1); u, the unit of a quantity or the text of a
\* string; l, the elements of a list.
Val(t, m, u) == [t |-> t, m |-> m, u |-> u, l |-> <<>>]

ListOf(seq) == [t |-> "list", m |-> 0, u |-> "", l |-> seq]

NoneV == Val("NoneType", 0, "")

Str(s) == Val("str", 0, s)

IntOf(n) == Val("int", n, "")

\* a float, in tenths
Flt(tenths) == Val("float", tenths, "")

\* a pint quantity
Qty(m, u) == Val("Quantity", m, u)

\* a member of one of the enum classes with its value, or an Affine with
\* its rendering
Obj(cls, value) == Val(cls, 0, value)

\* 1.0, the upper end of the opacity range, in tenths
OpacityMax == 10

\* maths.clip: max(min(x, xmax), xmin)
clip_unclipped(x, xmin, xmax) == x

clip(x, xmin, xmax) ==
    LET lo == IF x < xmax THEN x ELSE xmax
    IN  IF lo > xmin THEN lo ELSE xmin

\* units._tostr: the text of a length, pixel or percentage quantity
tostr(q) ==
    IF Dimension(q.u) \in {"[length]", "[pixel]", "[percentage]"}
    THEN [err |-> "none", text |-> [q EXCEPT !.t = "str"]]
    ELSE [err |-> "ValueError", text |-> NoneV]

\* The entities: each bundle mixed over a base that accepts the scaling
\* keywords, as the tests build them, and Line over PartBase.
Kinds == {"Styling", "Stroke", "Fill", "Clip", "Transform", "Font",
          "TextRendering", "Line"}

\* The classes of an entity in method resolution order, before its base.
MRO(kind) ==
    IF kind = "Line" THEN <<"Line", "Stroke", "Transform", "Clip", "Styling">>
    ELSE <<kind>>

Base(kind) == IF kind = "Line" THEN "PartBase" ELSE "TestBase"

\* The fields of a class, in the order __init__ checks them and
\* set_element_attributes writes them.
FieldsOf(cls) ==
    CASE cls = "Styling" -> <<"style", "cssclass">>
      [] cls = "Transform" -> <<"transform">>
      [] cls = "Stroke" -> <<"stroke", "stroke_dash_array", "stroke_dash_offset",
                             "stroke_linecap", "stroke_linejoin", "stroke_miterlimit",
                             "stroke_opacity", "stroke_width">>
      [] cls = "Fill" -> <<"fill", "fill_opacity">>
      [] cls = "Clip" -> <<"clip_path">>
      [] cls = "Font" -> <<"font_family", "font_size", "font_stretch", "font_style",
                           "font_variant", "font_weight">>
      [] cls = "TextRendering" -> <<"text_anchor">>
      [] OTHER -> <<"x1", "y1", "x2", "y2">>

RECURSIVE Chain(_, _)
Chain(mro, i) ==
    IF i > Len(mro) THEN <<>> ELSE FieldsOf(mro[i]) \o Chain(mro, i + 1)

\* All the fields of an entity, in the order of its classes.
Fields(kind) == Chain(MRO(kind), 1)

Required(kind) == IF kind = "Line" THEN {"x1", "y1", "x2", "y2"} ELSE {}

\* The value a field holds when its keyword is left out.
Default_none(f) == NoneV

Default(f) == IF f = "fill" THEN Str("none") ELSE NoneV

\* The attribute key a field is written under.
Key(f) ==
    CASE f = "style" -> "style"
      [] f = "cssclass" -> "class"
      [] f = "transform" -> "transform"
      [] f = "stroke" -> "stroke"
      [] f = "stroke_dash_array" -> "stroke-dasharray"
      [] f = "stroke_dash_offset" -> "stroke-dashoffset"
      [] f = "stroke_linecap" -> "stroke-linecap"
      [] f = "stroke_linejoin" -> "stroke-linejoin"
      [] f = "stroke_miterlimit" -> "stroke-miterlimit"
      [] f = "stroke_opacity" -> "stroke-opacity"
      [] f = "stroke_width" -> "stroke-width"
      [] f = "fill" -> "fill"
      [] f = "fill_opacity" -> "fill-opacity"
      [] f = "clip_path" -> "clip-path"
      [] f = "font_family" -> "font-family"
      [] f = "font_size" -> "font-size"
      [] f = "font_stretch" -> "font-stretch"
      [] f = "font_style" -> "font-style"
      [] f = "font_variant" -> "font-variant"
      [] f = "font_weight" -> "font-weight"
      [] f = "text_anchor" -> "text-anchor"
      [] OTHER -> f

\* The keys a class owns.
OwnedKeys(kind) == {Key(Fields(kind)[i]) : i \in 1..Len(Fields(kind))}

IsType(v, types) == v.t \in types

\* What __init__ does with the value given for a field: the exception it
\* raises, or "none".
Check(f, v) ==
    CASE f \in {"style", "cssclass", "stroke", "fill", "clip_path", "font_family"} ->
            IF IsType(v, {"str"}) THEN "none" ELSE "TypeError"
      [] f = "transform" -> IF IsType(v, {"Affine"}) THEN "none" ELSE "TypeError"
      [] f = "stroke_dash_array" ->
            IF ~IsType(v, {"list"}) THEN "TypeError"
            ELSE IF \E i \in 1..Len(v.l) : ~IsType(v.l[i], {"Quantity"}) THEN "TypeError"
            ELSE "none"
      [] f = "stroke_dash_offset" -> IF IsType(v, {"Quantity"}) THEN "none" ELSE "TypeError"
      [] f = "stroke_linecap" -> IF IsType(v, {"LineCap"}) THEN "none" ELSE "TypeError"
      [] f = "stroke_linejoin" -> IF IsType(v, {"LineJoin"}) THEN "none" ELSE "TypeError"
      [] f \in {"stroke_miterlimit", "stroke_opacity", "fill_opacity"} ->
            IF IsType(v, {"float"}) THEN "none" ELSE "TypeError"
      [] f = "stroke_width" ->
            IF ~IsType(v, {"Quantity"}) THEN "TypeError"
            ELSE IF ~(Dimension(v.u) \in {"[length]", "[pixel]"}) THEN "ValueError"
            ELSE "none"
      [] f = "font_size" ->
            IF IsType(v, {"FontSize", "Quantity"}) THEN "none" ELSE "TypeError"
      [] f = "font_stretch" ->
            IF ~IsType(v, {"FontStretch", "Quantity"}) THEN "TypeError"
            ELSE IF IsType(v, {"Quantity"}) /\ Dimension(v.u) # "[percentage]"
            THEN "ValueError"
            ELSE "none"
      [] f = "font_style" -> IF IsType(v, {"FontStyle"}) THEN "none" ELSE "TypeError"
      [] f = "font_variant" -> IF IsType(v, {"FontVariant"}) THEN "none" ELSE "TypeError"
      [] f = "font_weight" ->
            IF ~IsType(v, {"FontWeight", "int"}) THEN "TypeError"
            ELSE IF IsType(v, {"int"}) /\ v.m < 0 THEN "ValueError"
            ELSE "none"
      [] f = "text_anchor" -> IF IsType(v, {"TextAnchor"}) THEN "none" ELSE "TypeError"
      [] OTHER -> IF IsType(v, {"Quantity"}) THEN "none" ELSE "TypeError"

\* What __init__ stores for a value it accepted.
Stored(f, v) ==
    IF f \in {"stroke_opacity", "fill_opacity"}
    THEN Flt(clip(v.m, 0, OpacityMax))
    ELSE v

\* The fields a keyword was given for, in checking order, and the first
\* exception the constructor meets.
RECURSIVE FirstError(_, _, _)
FirstError(fields, i, args) ==
    IF i > Len(fields) THEN "none"
    ELSE IF fields[i] \in DOMAIN args /\ Check(fields[i], args[fields[i]]) # "none"
    THEN Check(fields[i], args[fields[i]])
    ELSE FirstError(fields, i + 1, args)

\* kind(**args): the constructed entity, or the exception raised.
construct(kind, args) ==
    [kind |-> kind,
     args |-> args,
     err |-> FirstError(Fields(kind), 1, args),
     fields |-> [f \in {Fields(kind)[i] : i \in 1..Len(Fields(kind))} |->
                    IF f \in DOMAIN args /\ Check(f, args[f]) = "none"
                    THEN Stored(f, args[f])
                    ELSE Default(f)]]

\* The text written for a field that holds a value, or the exception.
RECURSIVE AllTostr(_, _)
AllTostr(l, i) ==
    IF i > Len(l) THEN "none"
    ELSE IF tostr(l[i]).err # "none" THEN tostr(l[i]).err
    ELSE AllTostr(l, i + 1)

Render(f, v) ==
    CASE f \in {"stroke_dash_offset", "stroke_width", "x1", "y1", "x2", "y2"} -> tostr(v)
      [] f \in {"font_size", "font_stretch"} /\ IsType(v, {"Quantity"}) -> tostr(v)
      [] f = "stroke_dash_array" ->
            [err |-> AllTostr(v.l, 1), text |-> [v EXCEPT !.t = "str"]]
      [] f = "clip_path" -> [err |-> "none", text |-> Str("url(#" \o v.u \o ")")]
      [] f \in {"stroke_miterlimit", "stroke_opacity", "fill_opacity"} ->
            [err |-> "none", text |-> [v EXCEPT !.t = "str"]]
      \* a font weight that is no FontWeight: str(self._font_weight)
      [] f = "font_weight" /\ ~IsType(v, {"FontWeight"}) ->
            [err |-> "none", text |-> [v EXCEPT !.t = "str"]]
      [] OTHER -> [err |-> "none", text |-> Str(v.u)]

\* set_element_attributes down the classes of the entity: every field that
\* holds a value is written under its key; an exception leaves what was
\* written before it. At the end of the chain the base is called with the
\* scaling keywords, which PartBase.set_element_attributes does not take.
RECURSIVE SetFrom(_, _, _, _, _)
SetFrom(fields, i, stored, attrib, base) ==
    IF i > Len(fields)
    THEN [attrib |-> attrib, err |-> IF base = "PartBase" THEN "TypeError" ELSE "none"]
    ELSE IF stored[fields[i]] = NoneV THEN SetFrom(fields, i + 1, stored, attrib, base)
    ELSE LET r == Render(fields[i], stored[fields[i]])
         IN  IF r.err # "none" THEN [attrib |-> attrib, err |-> r.err]
             ELSE SetFrom(fields, i + 1, stored,
                          (Key(fields[i]) :> r.text) @@ attrib, base)

NoAttrib == [k \in {} |-> NoneV]

set_element_attributes(e) == SetFrom(Fields(e.kind), 1, e.fields, NoAttrib, Base(e.kind))


\* The values tried for each field: what the tests give, and values of a
\* wrong type or of a wrong dimension.
Inputs(f) ==
    CASE f \in {"style", "cssclass", "stroke", "fill", "clip_path", "font_family"} ->
            {Str("green"), IntOf(42)}
      [] f = "transform" -> {Obj("Affine", "translate(1mm 0mm) "), Str("translate")}
      [] f = "stroke_dash_array" ->
            {ListOf(<<Qty(40, "percent"), Qty(20, "percent")>>), ListOf(<<Qty(90, "deg")>>),
             ListOf(<<IntOf(42)>>), IntOf(42)}
      [] f = "stroke_dash_offset" -> {Qty(4, "mm"), Qty(90, "deg"), IntOf(42)}
      [] f = "stroke_linecap" -> {Obj("LineCap", "round"), Str("butt")}
      [] f = "stroke_linejoin" -> {Obj("LineJoin", "bevel"), Str("bevel")}
      [] f = "stroke_miterlimit" -> {Flt(5), Str("hello")}
      [] f \in {"stroke_opacity", "fill_opacity"} -> {Flt(11), Flt(-5), Flt(5), Str("hello")}
      [] f = "stroke_width" -> {Qty(2, "pt"), Qty(40, "percent"), IntOf(42)}
      [] f = "font_size" ->
            {Obj("FontSize", "x-large"), Qty(14, "pt"), Qty(90, "deg"), IntOf(14)}
      [] f = "font_stretch" ->
            {Obj("FontStretch", "semi-condensed"), Qty(10, "percent"), Qty(42, "mm"),
             Str("condensed")}
      [] f = "font_style" -> {Obj("FontStyle", "oblique"), Str("oblique")}
      [] f = "font_variant" -> {Obj("FontVariant", "normal"), Str("smallcaps")}
      [] f = "font_weight" -> {Obj("FontWeight", "bolder"), IntOf(900), IntOf(-42), Flt(7000)}
      [] f = "text_anchor" -> {Obj("TextAnchor", "middle"), Str("start")}
      [] f = "x1" -> {Qty(1, "mm"), Qty(90, "deg"), Flt(10)}
      [] f = "y2" -> {Qty(2, "mm"), Qty(90, "deg")}
      [] OTHER -> {Qty(1, "mm")}

\* the most keywords given to a constructor beside the required arguments
MaxFields == 2

\* The keyword arguments over a set of fields, each with one of its inputs.
RECURSIVE ArgsOver(_)
ArgsOver(S) ==
    IF S = {} THEN {[f \in {} |-> NoneV]}
    ELSE LET f == CHOOSE x \in S : TRUE
         IN  {a @@ (f :> v) : a \in ArgsOver(S \ {f}), v \in Inputs(f)}

FieldSet(kind) == {Fields(kind)[i] : i \in 1..Len(Fields(kind))}

ArgSets(kind) ==
    UNION {ArgsOver(Required(kind) \cup O) :
              O \in {X \in SUBSET (FieldSet(kind) \ Required(kind)) :
                        Cardinality(X) <= MaxFields}}

\* nothing constructed yet
NoEntity == [kind |-> "none", args |-> NoAttrib, err |-> "none", fields |-> NoAttrib]

\* the element before set_element_attributes: ET.Element("test")
NoElement == [attrib |-> NoAttrib, err |-> "none", set |-> FALSE]

TraitsNew ==
    /\ entity = NoEntity
    /\ element = NoElement

\* e = kind(**args)
Construct ==
    /\ entity = NoEntity
    /\ \E kind \in Kinds :
           \E args \in ArgSets(kind) :
               entity' = construct(kind, args)
    /\ element' = element
    /\ UNCHANGED <<dictvars, affvars, unitvars, pathvars, alignvars>>

\* e.set_element_attributes(element), for an entity whose constructor returned
SetElementAttributes ==
    /\ entity # NoEntity
    /\ entity.err = "none"
    /\ ~element.set
    /\ element' = [attrib |-> set_element_attributes(entity).attrib,
                   err |-> set_element_attributes(entity).err,
                   set |-> TRUE]
    /\ entity' = entity
    /\ UNCHANGED <<dictvars, affvars, unitvars, pathvars, alignvars>>

NextTraits ==
    \/ Construct
    \/ SetElementAttributes

----------------------------------------------------------------------------
\* The unit registry and the two conversions of units.py, with magnitudes as
\* fractions and strings as sequences of characters.

RECURSIVE RatPow(_, _)
RatPow(a, e) ==
    IF e = 0 THEN Rat(1, 1)
    ELSE IF e > 0 THEN RatMul(a, RatPow(a, e - 1))
    ELSE RatDiv(RatPow(a, e + 1), a)

\* The units the package exports (units.py lines 40-48) and device.
UnitNames == {"mm", "cm", "inch", "pt", "px", "percent", "device", "deg"}

\* The dimensions the registry defines (lines 20-23).
Dimensions == {"[length]", "[pixel]", "[percentage]", "[device]"}

\* The dimension of a named unit; radian and degree are dimensionless (line 35).
DimensionOf(name) ==
    CASE name \in {"mm", "cm", "inch", "pt"} -> "[length]"
      [] name = "px" -> "[pixel]"
      [] name = "percent" -> "[percentage]"
      [] name = "device" -> "[device]"
      [] name = "deg" -> "[]"

\* How many base units (metre, px, percent, device) a named unit is:
\* mm = 1e-3 m, cm = 1e-2 m, inch = 25.4 mm, point = inch / 72.
ToBase(name) ==
    CASE name = "mm" -> Rat(1, 1000)
      [] name = "cm" -> Rat(1, 100)
      [] name = "inch" -> Rat(254, 10000)
      [] name = "pt" -> Rat(254, 720000)
      [] name \in {"px", "percent", "device"} -> Rat(1, 1)

\* A unit: the exponent of each named unit in it.
Unit(name) == [n \in UnitNames |-> IF n = name THEN 1 ELSE 0]

UnitMul(a, b) == [n \in UnitNames |-> a[n] + b[n]]

Per(a, b) == [n \in UnitNames |-> a[n] - b[n]]

RECURSIVE SumOver(_, _)
SumOver(S, u) ==
    IF S = {} THEN 0
    ELSE LET n == CHOOSE x \in S : TRUE
         IN  u[n] + SumOver(S \ {n}, u)

\* The dimensionality of a unit: the exponent of each dimension.
dimensionality(u) ==
    [d \in Dimensions |-> SumOver({n \in UnitNames : DimensionOf(n) = d}, u)]

\* A quantity: magnitude * unit
Quantity(mag, u) == [mag |-> mag, unit |-> u]

\* q.check("[length]"), q.check(ureg.percent): the dimensionalities are equal
pint_check(q, dim) ==
    dimensionality(q.unit) = [d \in Dimensions |-> IF d = dim THEN 1 ELSE 0]

\* v * w
QuantityMul(v, w) == Quantity(RatMul(v.mag, w.mag), UnitMul(v.unit, w.unit))

RECURSIVE FactorOver(_, _)
FactorOver(S, u) ==
    IF S = {} THEN Rat(1, 1)
    ELSE LET n == CHOOSE x \in S : TRUE
         IN  IF u[n] = 0 THEN FactorOver(S \ {n}, u)
             ELSE RatMul(RatPow(ToBase(n), u[n]), FactorOver(S \ {n}, u))

\* q.to(unit)
pint_to(q, u) ==
    IF dimensionality(q.unit) # dimensionality(u)
    THEN [err |-> "DimensionalityError", q |-> q]
    ELSE [err |-> "none",
          q |-> Quantity(RatDiv(RatMul(q.mag, FactorOver(UnitNames, q.unit)),
                                FactorOver(UnitNames, u)), u)]

\* The decimal digits of a natural number.
RECURSIVE Digits(_)
Digits(n) ==
    IF n < 10 THEN <<ToString(n)>> ELSE Digits(n \div 10) \o <<ToString(n % 10)>>

\* precision of the presentation type f
Decimals == 6

RECURSIVE Pow10(_)
Pow10(k) == IF k = 0 THEN 1 ELSE 10 * Pow10(k - 1)

RECURSIVE ZeroPad(_, _)
ZeroPad(s, k) == IF Len(s) >= k THEN s ELSE ZeroPad(<<"0">> \o s, k)

\* "{:f}".format(x): the sign, the integer part, a point and six decimals,
\* rounded to the nearest, a tie to the even digit.
format_f(r) ==
    LET num == Abs(r.n) * Pow10(Decimals)
        q == num \div r.d
        rem == num % r.d
        up == 2 * rem > r.d \/ (2 * rem = r.d /\ q % 2 = 1)
        x == q + (IF up THEN 1 ELSE 0)
    IN  (IF r.n < 0 THEN <<"-">> ELSE <<>>)
            \o Digits(x \div Pow10(Decimals)) \o <<".">>
            \o ZeroPad(Digits(x % Pow10(Decimals)), Decimals)

\* The symbol of a named unit ("~": abbreviated).
Symbol(name) ==
    CASE name = "mm" -> <<"m", "m">>
      [] name = "cm" -> <<"c", "m">>
      [] name = "inch" -> <<"i", "n">>
      [] name = "pt" -> <<"p", "t">>
      [] name = "px" -> <<"p", "x">>
      [] name = "percent" -> <<"%">>
      [] name = "device" -> <<"d", "e", "v", "i", "c", "e">>
      [] name = "deg" -> <<"d", "e", "g">>

\* The pretty form of a unit: its symbol, or numerator/denominator.
UnitSymbol(u) ==
    LET num == {n \in UnitNames : u[n] > 0}
        den == {n \in UnitNames : u[n] < 0}
    IN  (IF num = {} THEN <<>> ELSE Symbol(CHOOSE n \in num : TRUE))
            \o (IF den = {} THEN <<>>
                ELSE <<"/">> \o Symbol(CHOOSE n \in den : TRUE))

\* "{:f~P}".format(q): the magnitude, a space, the unit
format_fP(q) == format_f(q.mag) \o <<" ">> \o UnitSymbol(q.unit)

\* s.replace(" ", "")
replace_spaces(s) == SelectSeq(s, LAMBDA c : c # " ")

\* _tostr(q), without the replace: the space of the format is kept
_tostr_spaced(q) ==
    IF pint_check(q, "[length]") \/ pint_check(q, "[pixel]")
           \/ pint_check(q, "[percentage]")
    THEN [err |-> "none", text |-> format_fP(q)]
    ELSE [err |-> "ValueError", text |-> <<>>]

\* _tostr(q): the string it returns, character by character
_tostr(q) ==
    IF pint_check(q, "[length]") THEN
        [err |-> "none", text |-> replace_spaces(format_fP(q))]
    ELSE IF pint_check(q, "[pixel]") THEN
        [err |-> "none", text |-> replace_spaces(format_fP(q))]
    ELSE IF pint_check(q, "[percentage]") THEN
        [err |-> "none", text |-> replace_spaces(format_fP(q))]
    ELSE [err |-> "ValueError", text |-> <<>>]

\* _scale(v, ...) taking the pixel scaling for a length as well
_scale_by_pixel(v, device_per_length, device_per_pixel) ==
    IF pint_check(v, "[length]") \/ pint_check(v, "[pixel]")
    THEN pint_to(QuantityMul(v, device_per_pixel), Unit("device"))
    ELSE [err |-> "ValueError", q |-> v]

\* _scale(v, device_per_length, device_per_pixel)
_scale(v, device_per_length, device_per_pixel) ==
    IF pint_check(v, "[length]")
    THEN pint_to(QuantityMul(v, device_per_length), Unit("device"))
    ELSE IF pint_check(v, "[pixel]")
    THEN pint_to(QuantityMul(v, device_per_pixel), Unit("device"))
    ELSE [err |-> "ValueError", q |-> v]

\* The magnitudes given: 10, 1, 0, -5, 2.5 and 72
Magnitudes == {Rat(10, 1), Rat(1, 1), Rat(0, 1), Rat(-5, 1), Rat(5, 2), Rat(72, 1)}

\* The units given: each named unit and the two scalings
GivenUnits ==
    {Unit(n) : n \in UnitNames}
        \cup {Per(Unit("device"), Unit("inch")), Per(Unit("device"), Unit("px"))}

Quantities == {Quantity(m, u) : m \in Magnitudes, u \in GivenUnits}

\* device_per_length: the default 72 device/inch, and 10 device/mm
LengthScalings ==
    {Quantity(Rat(72, 1), Per(Unit("device"), Unit("inch"))),
     Quantity(Rat(10, 1), Per(Unit("device"), Unit("mm")))}

\* device_per_pixel: the default 1 device/px, and 2 device/px
PixelScalings ==
    {Quantity(Rat(1, 1), Per(Unit("device"), Unit("px"))),
     Quantity(Rat(2, 1), Per(Unit("device"), Unit("px")))}

NoQuantity == Quantity(Rat(0, 1), [n \in UnitNames |-> 0])

\* A call of one of the two functions and what it gave.
Conversion(op, v, dpl, dpp, err, q, text) ==
    [op |-> op, v |-> v, dpl |-> dpl, dpp |-> dpp, err |-> err, q |-> q,
     text |-> text]

UnitsNew ==
    conversion = Conversion("init", NoQuantity, NoQuantity, NoQuantity, "none",
                            NoQuantity, <<>>)

\* _tostr(q)
ToStr ==
    /\ \E q \in Quantities :
           conversion' = Conversion("_tostr", q, NoQuantity, NoQuantity,
                                    _tostr(q).err, NoQuantity, _tostr(q).text)
    /\ UNCHANGED <<dictvars, affvars, traitvars, pathvars, alignvars>>

\* _scale(v, device_per_length, device_per_pixel)
ScaleToDevice ==
    /\ \E v \in Quantities, dpl \in LengthScalings, dpp \in PixelScalings :
           conversion' = Conversion("_scale", v, dpl, dpp, _scale(v, dpl, dpp).err,
                                    _scale(v, dpl, dpp).q, <<>>)
    /\ UNCHANGED <<dictvars, affvars, traitvars, pathvars, alignvars>>

NextUnits ==
    \/ ToStr
    \/ ScaleToDevice

----------------------------------------------------------------------------
\* Path commands, RawPath and the shapes' to_path (paths.py, shapes.py).

\* _COMMAND_CLASSES
COMMAND_CLASSES ==
    {"MoveTo", "MoveToDelta", "LineTo", "LineToDelta", "PathLine",
     "HlineTo", "HlineToDelta", "Hline", "VlineTo", "VlineToDelta", "Vline",
     "CubicBezierTo", "CubicBezierToDelta", "QuadraticBezierTo",
     "QuadraticBezierToDelta"}

\* A member given to a RawPath: a command object with the coordinates it was
\* made with, or an object of another class (args empty).
Command(cls, args) == [cls |-> cls, args |-> args]

\* isinstance(item, _COMMAND_CLASSES)
IsCommand(item) == item.cls \in COMMAND_CLASSES

\* a coordinate: a float number of px
Px(n) == Quantity(Rat(n, 1), Unit("px"))

\* -q
Neg(q) == Quantity(Rat(-q.mag.n, q.mag.d), q.unit)

\* The characters of the format string each command's to_svg fills in;
\* "{}" is a replacement field.
Template(cls) ==
    CASE cls = "MoveTo" -> <<"M", " ", "{}", " ", "{}">>
      [] cls = "MoveToDelta" -> <<"m", " ", "{}", " ", "{}">>
      [] cls = "LineTo" -> <<"L", " ", "{}", " ", "{}">>
      [] cls = "LineToDelta" -> <<"l", " ", "{}", " ", "{}">>
      [] cls = "PathLine" -> <<"M", " ", "{}", " ", "{}", " ", "L", " ", "{}", " ", "{}">>
      [] cls = "HlineTo" -> <<"H", " ", "{}">>
      [] cls = "HlineToDelta" -> <<"h", " ", "{}", " ">>
      [] cls = "Hline" -> <<"M", " ", "{}", " ", "{}", " ", "H", " ", "{}">>
      [] cls = "VlineTo" -> <<"V", " ", "{}">>
      [] cls = "VlineToDelta" -> <<"v", " ", "{}">>
      [] cls = "Vline" -> <<"M", " ", "{}", " ", "{}", " ", "V", " ", "{}">>
      [] cls = "CubicBezierTo" ->
            <<"C", " ", "{}", " ", "{}", ",", " ", "{}", " ", "{}", ",", " ", "{}", " ", "{}">>
      [] cls = "CubicBezierToDelta" ->
            <<"c", " ", "{}", " ", "{}", ",", " ", "{}", " ", "{}", ",", " ", "{}", " ", "{}">>
      [] cls = "QuadraticBezierTo" ->
            <<"Q", " ", "{}", " ", "{}", ",", " ", "{}", " ", "{}">>
      [] cls = "QuadraticBezierToDelta" ->
            <<"q", " ", "{}", " ", "{}", ",", " ", "{}", " ", "{}">>

\* str(x) of a float: the shortest numeral that reads back, for a number
\* with at most one decimal
repr_float(r) ==
    LET tenths == (Abs(r.n) * 10) \div r.d
    IN  (IF r.n < 0 THEN <<"-">> ELSE <<>>)
            \o Digits(tenths \div 10) \o <<".">> \o Digits(tenths % 10)

\* str(q) of a quantity in device units: the magnitude, a space, the unit's name
str_quantity(q) ==
    repr_float(q.mag) \o <<" ">> \o <<"d", "e", "v", "i", "c", "e">>

\* What a command's to_svg puts in a replacement field: the magnitude of the
\* scaled coordinate; PathLine passes the scaled quantity itself (line 231).
Field(cls, q) == IF cls = "PathLine" THEN str_quantity(q) ELSE repr_float(q.mag)

\* template.format(values...)
RECURSIVE format(_, _)
format(template, values) ==
    IF template = <<>> THEN <<>>
    ELSE IF Head(template) = "{}"
         THEN Head(values) \o format(Tail(template), Tail(values))
         ELSE <<Head(template)>> \o format(Tail(template), values)

\* The coordinates of a command, each through _scale
Scaled(c, dpl, dpp) == [i \in 1..Len(c.args) |-> _scale(c.args[i], dpl, dpp)]

\* command.to_svg(device_per_length, device_per_pixel)
command_to_svg(c, dpl, dpp) ==
    LET s == Scaled(c, dpl, dpp)
    IN  IF \E i \in 1..Len(s) : s[i].err # "none"
        THEN [err |-> "ValueError", text |-> <<>>]
        ELSE [err |-> "none",
              text |-> format(Template(c.cls),
                              [i \in 1..Len(s) |-> Field(c.cls, s[i].q)])]

\* sep.join(strings)
RECURSIVE join(_, _)
join(sep, strings) ==
    IF strings = <<>> THEN <<>>
    ELSE IF Len(strings) = 1 THEN strings[1]
    ELSE strings[1] \o sep \o join(sep, Tail(strings))

\* A RawPath: the list's members and _closed
RawPath(members, closed) == [made |-> TRUE, items |-> members, closed |-> closed]

\* no RawPath constructed yet
NoPath == [made |-> FALSE, items |-> <<>>, closed |-> FALSE]

\* What a call on a RawPath gave: the path after it and the exception raised.
PathResult(p, err) == [path |-> p, err |-> err]

\* RawPath(members, closed)
RawPath_init(members, closed) ==
    IF \E i \in 1..Len(members) : ~IsCommand(members[i])
    THEN PathResult(NoPath, "ValueError")
    ELSE PathResult(RawPath(members, closed), "none")

\* path[index] = item
RawPath_setitem(p, index, item) ==
    LET n == Len(p.items)
    IN  IF ~IsCommand(item) THEN PathResult(p, "ValueError")
        ELSE IF index >= n \/ index < -n THEN PathResult(p, "IndexError")
        ELSE LET i == (IF index < 0 THEN index + n ELSE index) + 1
             IN  PathResult([p EXCEPT !.items[i] = item], "none")

\* list.insert(index, item): an index outside the list is taken to its end
list_insert(s, index, item) ==
    LET n == Len(s)
        j == IF index < 0 THEN index + n ELSE index
        i == IF j < 0 THEN 0 ELSE IF j > n THEN n ELSE j
    IN  SubSeq(s, 1, i) \o <<item>> \o SubSeq(s, i + 1, n)

\* path.insert(index, item) without the test of the item
RawPath_insert_unchecked(p, index, item) ==
    PathResult([p EXCEPT !.items = list_insert(p.items, index, item)], "none")

\* path.insert(index, item)
RawPath_insert(p, index, item) ==
    IF ~IsCommand(item) THEN PathResult(p, "ValueError")
    ELSE PathResult([p EXCEPT !.items = list_insert(p.items, index, item)], "none")

\* path.append(item)
RawPath_append(p, item) ==
    IF ~IsCommand(item) THEN PathResult(p, "ValueError")
    ELSE PathResult([p EXCEPT !.items = Append(p.items, item)], "none")

\* path.extend(other); other is a RawPath (isPath) or another iterable
RawPath_extend(p, other, isPath) ==
    IF isPath THEN PathResult([p EXCEPT !.items = p.items \o other], "none")
    ELSE IF \E i \in 1..Len(other) : ~IsCommand(other[i])
    THEN PathResult(p, "ValueError")
    ELSE PathResult([p EXCEPT !.items = p.items \o other], "none")

\* del path[index]: list.__delitem__, which RawPath does not override
RawPath_delitem(p, index) ==
    LET n == Len(p.items)
    IN  IF index >= n \/ index < -n THEN PathResult(p, "IndexError")
        ELSE LET i == (IF index < 0 THEN index + n ELSE index) + 1
             IN  PathResult([p EXCEPT !.items = SubSeq(@, 1, i - 1) \o SubSeq(@, i + 1, n)],
                            "none")

\* path.pop(index), path.pop() being path.pop(-1): list.pop
RawPath_pop(p, index) == RawPath_delitem(p, index)

\* path.remove(item): list.remove. The commands define no __eq__, so an
\* item is found where the list holds that very object: at is the first
\* place holding it (from 1), or 0 for an object the list does not hold.
RawPath_remove(p, at) ==
    IF at = 0 THEN PathResult(p, "ValueError")
    ELSE PathResult([p EXCEPT !.items = SubSeq(@, 1, at - 1) \o SubSeq(@, at + 1, Len(@))],
                    "none")

\* path.clear(): list.clear
RawPath_clear(p) == PathResult([p EXCEPT !.items = <<>>], "none")

\* path.reverse(): list.reverse
RawPath_reverse(p) ==
    LET n == Len(p.items)
    IN  PathResult([p EXCEPT !.items = [i \in 1..n |-> p.items[n + 1 - i]]], "none")

\* path.sort(): list.sort compares the members with <, which no command
\* class defines; the first comparison raises and leaves the order as it
\* was. Members that are all str are ordered (equal ones stay in place); a
\* list of fewer than two members is not compared at all.
RawPath_sort(p) ==
    IF Len(p.items) < 2 THEN PathResult(p, "none")
    ELSE IF \A i \in 1..Len(p.items) : ~IsCommand(p.items[i]) THEN PathResult(p, "none")
    ELSE PathResult(p, "TypeError")

\* path += other: list.__iadd__ extends the list without RawPath.extend's
\* test of the members
RawPath_iadd(p, other) == PathResult([p EXCEPT !.items = @ \o other], "none")

\* path *= n: list.__imul__ repeats the members n times, none for n <= 0
RawPath_imul(p, n) ==
    LET times[k \in 0..(IF n < 0 THEN 0 ELSE n)] ==
            IF k = 0 THEN <<>> ELSE times[k - 1] \o p.items
    IN  PathResult([p EXCEPT !.items = times[IF n < 0 THEN 0 ELSE n]], "none")

\* path.close()
RawPath_close(p) == PathResult([p EXCEPT !.closed = TRUE], "none")

\* the strings of the members' to_svg, in the order of the list; a member
\* that is no command (a str) has no to_svg
Tokens(p, dpl, dpp) ==
    [i \in 1..Len(p.items) |->
        IF IsCommand(p.items[i]) THEN command_to_svg(p.items[i], dpl, dpp)
        ELSE [err |-> "AttributeError", text |-> <<>>]]

\* path.to_svg(device_per_length, device_per_pixel)
RawPath_to_svg(p, dpl, dpp) ==
    LET t == Tokens(p, dpl, dpp)
        failed == {i \in 1..Len(t) : t[i].err # "none"}
    IN  IF failed # {}
        THEN [err |-> t[CHOOSE i \in failed : \A j \in failed : i <= j].err, text |-> <<>>]
        ELSE [err |-> "none",
              text |-> join(<<" ">>, [i \in 1..Len(t) |-> t[i].text])
                           \o (IF p.closed THEN <<" ", "Z">> ELSE <<>>)]

\* A shape with the coordinates it was constructed with.
Shape(cls, x, y, width, height) ==
    [cls |-> cls, x |-> x, y |-> y, width |-> width, height |-> height]

NoShape == Shape("none", <<>>, <<>>, <<>>, <<>>)

\* Line(x1, y1, x2, y2)
LineShape(x1, y1, x2, y2) == Shape("Line", <<x1, x2>>, <<y1, y2>>, <<>>, <<>>)

\* Rect(x, y, width, height), rx and ry left None
RectShape(x, y, width, height) == Shape("Rect", <<x>>, <<y>>, <<width>>, <<height>>)

\* zip(x[1:], y[1:]) made into LineTo commands
RECURSIVE LinesTo(_, _)
LinesTo(x, y) ==
    IF x = <<>> \/ y = <<>> THEN <<>>
    ELSE <<Command("LineTo", <<Head(x), Head(y)>>)>> \o LinesTo(Tail(x), Tail(y))

\* Polygon.to_path without the closing line to the first vertex
Polygon_to_path_unclosed(s) ==
    RawPath(<<Command("MoveTo", <<s.x[1], s.y[1]>>)>>
                \o LinesTo(Tail(s.x), Tail(s.y)), TRUE)

\* Polygon.to_path()
Polygon_to_path(s) ==
    RawPath(<<Command("MoveTo", <<s.x[1], s.y[1]>>)>>
                \o LinesTo(Tail(s.x), Tail(s.y))
                \o <<Command("LineTo", <<s.x[1], s.y[1]>>)>>, TRUE)

\* shape.to_path() of a Line, a Polyline, a Polygon and a Rect without radius
to_path(s) ==
    CASE s.cls = "Line" ->
            RawPath(<<Command("MoveTo", <<s.x[1], s.y[1]>>),
                      Command("LineTo", <<s.x[2], s.y[2]>>)>>, FALSE)
      [] s.cls = "Polyline" ->
            RawPath(<<Command("MoveTo", <<s.x[1], s.y[1]>>)>>
                        \o LinesTo(Tail(s.x), Tail(s.y)), FALSE)
      [] s.cls = "Polygon" -> Polygon_to_path(s)
      [] s.cls = "Rect" ->
            RawPath(<<Command("MoveTo", <<s.x[1], s.y[1]>>),
                      Command("HlineToDelta", <<s.width[1]>>),
                      Command("VlineToDelta", <<s.height[1]>>),
                      Command("HlineToDelta", <<Neg(s.width[1])>>),
                      Command("VlineToDelta", <<Neg(s.height[1])>>)>>, TRUE)

\* One command of each class, with coordinates in px.
OfEachClass ==
    <<Command("MoveTo", <<Px(0), Px(0)>>),
      Command("MoveToDelta", <<Px(10), Px(10)>>),
      Command("LineTo", <<Px(50), Px(0)>>),
      Command("LineToDelta", <<Px(10), Px(-10)>>),
      Command("PathLine", <<Px(0), Px(0), Px(50), Px(50)>>),
      Command("HlineTo", <<Px(50)>>),
      Command("HlineToDelta", <<Px(50)>>),
      Command("Hline", <<Px(0), Px(0), Px(50)>>),
      Command("VlineTo", <<Px(50)>>),
      Command("VlineToDelta", <<Px(50)>>),
      Command("Vline", <<Px(0), Px(0), Px(50)>>),
      Command("CubicBezierTo", <<Px(10), Px(0), Px(40), Px(0), Px(50), Px(50)>>),
      Command("CubicBezierToDelta", <<Px(10), Px(0), Px(40), Px(0), Px(50), Px(50)>>),
      Command("QuadraticBezierTo", <<Px(25), Px(0), Px(50), Px(50)>>),
      Command("QuadraticBezierToDelta", <<Px(25), Px(0), Px(50), Px(50)>>)>>

\* an object that is not a command
NotACommand == Command("str", <<>>)

\* The members given to item assignment, insert and append.
Members ==
    {OfEachClass[1], OfEachClass[3], OfEachClass[7], NotACommand}

\* The iterables given to the constructor.
GivenLists ==
    {<<>>, OfEachClass, <<NotACommand>>, <<OfEachClass[1], NotACommand>>,
     <<OfEachClass[1], OfEachClass[3]>>, <<OfEachClass[1], OfEachClass[7]>>}
        \cup {<<OfEachClass[i]>> : i \in 1..Len(OfEachClass)}

\* The iterables given to extend.
ExtendLists ==
    {<<>>, <<OfEachClass[3]>>, <<NotACommand>>, <<OfEachClass[3], NotACommand>>,
     <<OfEachClass[7], OfEachClass[3]>>}

\* The longest path the mutating calls are followed to.
MaxPath == 2

Indices == -1..MaxPath

\* The shapes converted.
Shapes ==
    {LineShape(Px(0), Px(0), Px(50), Px(50)),
     RectShape(Px(0), Px(0), Px(50), Px(50)),
     RectShape(Px(10), Px(20), Px(30), Px(40)),
     Shape("Polyline", <<Px(0)>>, <<Px(0)>>, <<>>, <<>>),
     Shape("Polyline", <<Px(0), Px(50)>>, <<Px(0), Px(0)>>, <<>>, <<>>),
     Shape("Polyline", <<Px(0), Px(50), Px(50)>>, <<Px(0), Px(0), Px(50)>>, <<>>, <<>>),
     Shape("Polygon", <<Px(0)>>, <<Px(0)>>, <<>>, <<>>),
     Shape("Polygon", <<Px(0), Px(50)>>, <<Px(0), Px(0)>>, <<>>, <<>>),
     Shape("Polygon", <<Px(0), Px(50), Px(50)>>, <<Px(0), Px(0), Px(50)>>, <<>>, <<>>)}

\* the default scalings of to_svg
DefaultPerLength == Quantity(Rat(72, 1), Per(Unit("device"), Unit("inch")))

DefaultPerPixel == Quantity(Rat(1, 1), Per(Unit("device"), Unit("px")))

\* A call on the RawPath: its name, whether a member given was not a command,
\* the exception, the string returned and the shape converted.
PathCall(op, bad, err, text, shape) ==
    [op |-> op, bad |-> bad, err |-> err, text |-> text, shape |-> shape]

PathNew ==
    /\ path = NoPath
    /\ pcall = PathCall("init", FALSE, "none", <<>>, NoShape)

PathBecomes(op, bad, r) ==
    /\ path' = r.path
    /\ pcall' = PathCall(op, bad, r.err, <<>>, NoShape)
    /\ UNCHANGED <<dictvars, affvars, traitvars, unitvars, alignvars>>

\* path = RawPath(members, closed)
PathInit ==
    /\ ~path.made
    /\ \E members \in GivenLists, closed \in BOOLEAN :
           PathBecomes("init", \E i \in 1..Len(members) : ~IsCommand(members[i]),
                       RawPath_init(members, closed))

PathSetItem ==
    /\ path.made
    /\ Len(path.items) <= MaxPath
    /\ \E index \in Indices, item \in Members :
           PathBecomes("setitem", ~IsCommand(item), RawPath_setitem(path, index, item))

PathInsert ==
    /\ path.made
    /\ Len(path.items) < MaxPath
    /\ \E index \in Indices, item \in Members :
           PathBecomes("insert", ~IsCommand(item), RawPath_insert(path, index, item))

PathAppend ==
    /\ path.made
    /\ Len(path.items) < MaxPath
    /\ \E item \in Members :
           PathBecomes("append", ~IsCommand(item), RawPath_append(path, item))

\* path.extend(list)
PathExtend ==
    /\ path.made
    /\ \E other \in ExtendLists :
           /\ Len(path.items) + Len(other) <= MaxPath
           /\ PathBecomes("extend", \E i \in 1..Len(other) : ~IsCommand(other[i]),
                          RawPath_extend(path, other, FALSE))

\* path.extend(path): the other iterable is a RawPath
PathExtendPath ==
    /\ path.made
    /\ 2 * Len(path.items) <= MaxPath
    /\ PathBecomes("extend", FALSE, RawPath_extend(path, path.items, TRUE))

\* del path[index]
PathDelItem ==
    /\ path.made
    /\ Len(path.items) <= MaxPath
    /\ \E index \in Indices :
           PathBecomes("delitem", FALSE, RawPath_delitem(path, index))

\* path.pop(index)
PathPop ==
    /\ path.made
    /\ Len(path.items) <= MaxPath
    /\ \E index \in Indices :
           PathBecomes("pop", FALSE, RawPath_pop(path, index))

\* path.remove(item), item a member at its first place or an object the
\* path does not hold
PathRemove ==
    /\ path.made
    /\ Len(path.items) <= MaxPath
    /\ \E at \in 0..Len(path.items) :
           /\ \A j \in 1..(at - 1) : path.items[j] # path.items[at]
           /\ PathBecomes("remove", FALSE, RawPath_remove(path, at))

\* path.clear()
PathClear ==
    /\ path.made
    /\ PathBecomes("clear", FALSE, RawPath_clear(path))

\* path.reverse()
PathReverse ==
    /\ path.made
    /\ Len(path.items) <= MaxPath
    /\ PathBecomes("reverse", FALSE, RawPath_reverse(path))

\* path.sort()
PathSort ==
    /\ path.made
    /\ Len(path.items) <= MaxPath
    /\ PathBecomes("sort", FALSE, RawPath_sort(path))

\* path += other
PathIAdd ==
    /\ path.made
    /\ \E other \in ExtendLists :
           /\ Len(path.items) + Len(other) <= MaxPath
           /\ PathBecomes("iadd", \E i \in 1..Len(other) : ~IsCommand(other[i]),
                          RawPath_iadd(path, other))

\* path *= n
PathIMul ==
    /\ path.made
    /\ \E n \in Indices :
           /\ n * Len(path.items) <= MaxPath
           /\ PathBecomes("imul", FALSE, RawPath_imul(path, n))

PathClose ==
    /\ path.made
    /\ PathBecomes("close", FALSE, RawPath_close(path))

PathToSvg ==
    /\ path.made
    /\ path' = path
    /\ pcall' = PathCall("to_svg", FALSE,
                         RawPath_to_svg(path, DefaultPerLength, DefaultPerPixel).err,
                         RawPath_to_svg(path, DefaultPerLength, DefaultPerPixel).text,
                         NoShape)
    /\ UNCHANGED <<dictvars, affvars, traitvars, unitvars, alignvars>>

\* path = shape.to_path()
ShapeToPath ==
    /\ ~path.made
    /\ \E s \in Shapes :
           /\ path' = to_path(s)
           /\ pcall' = PathCall("to_path", FALSE, "none", <<>>, s)
    /\ UNCHANGED <<dictvars, affvars, traitvars, unitvars, alignvars>>

\* The calls that test their members, with close, to_svg and to_path.
NextPathCalls ==
    \/ PathInit
    \/ PathSetItem
    \/ PathInsert
    \/ PathAppend
    \/ PathExtend
    \/ PathExtendPath
    \/ PathClose
    \/ PathToSvg
    \/ ShapeToPath

\* Every call that changes a RawPath, the ones inherited from list included.
NextPath ==
    \/ NextPathCalls
    \/ PathDelItem
    \/ PathPop
    \/ PathRemove
    \/ PathClear
    \/ PathReverse
    \/ PathSort
    \/ PathIAdd
    \/ PathIMul

----------------------------------------------------------------------------
\* two_point_align (align.py): the search as the code steps through it. The
\* floating-point tests (a step lowers the cost, the angle has settled) are
\* decided by the points given; Cases names the three ways they can go.

\* "aligned": the cost at the starting guess is below 1e-7 (line 47), as for
\*     xa=[0,1] ya=[0,0] xb=[0,1] yb=[0,0];
\* "stationary": the derivative at the starting guess is 0 and the cost is
\*     not, as for xa=[1,0] ya=[0,0] xb=[2,0] yb=[0,0] (guess 0.0): next_th
\*     equals this_th, no step lowers the cost, and dth/this_th is 0/0;
\* "generic": each test may go either way.
Cases == {"aligned", "stationary", "generic"}

\* the halvings the inner loop allows (line 57)
HalvingBudget == 10

\* the count at which line 68 raises
RaiseCount == 20

\* The largest max_iter given.
MaxIter == 2

\* The state of a call: pc its position ("idle": not called, "inner": at the
\* test of the inner loop, "return": at line 82, "end": it left), the locals
\* iter, descend_check_iter (check), descended and done, halvings the number
\* of times rate was halved, exhausted: an inner search used up its budget
\* without finding a descending step, adopted: this_th was assigned a next_th
\* that did not lower the cost, err the exception raised, result the Affine
\* returned.
Solver(pc, case, max_iter, it, chk, descended, done, halvings, exhausted, adopted, err, result) ==
    [pc |-> pc, case |-> case, max_iter |-> max_iter, iter |-> it,
     check |-> chk, descended |-> descended, done |-> done,
     halvings |-> halvings, exhausted |-> exhausted, adopted |-> adopted,
     err |-> err, result |-> result]

AlignNew ==
    solver = Solver("idle", "generic", 0, 0, 0, FALSE, FALSE, 0, FALSE, FALSE,
                    "none", identity)

\* while iter<max_iter and not done (line 53): into the inner loop with
\* descended = False and descend_check_iter = 0, or on to line 82
Loop(s) ==
    IF s.iter < s.max_iter /\ ~s.done
    THEN [s EXCEPT !.pc = "inner", !.descended = FALSE, !.check = 0]
    ELSE [s EXCEPT !.pc = "return"]

\* cost(next_th) < cost(this_th) (line 60) can be true
MayDescend(s) == s.case = "generic"

\* cost(next_th) < cost(this_th) can be false
MayNotDescend(s) == TRUE

\* np.abs(dth/this_th) < tolerance (line 75) can be true; 0/0 is nan
MaySettle(s) == s.case = "generic"

\* if descend_check_iter==20 (line 68)
raises(s) == s.check = RaiseCount

\* two_point_align(xa, ya, xb, yb, max_iter): lines 38-53
AlignCall ==
    /\ solver.pc = "idle"
    /\ \E case \in Cases, max_iter \in 1..MaxIter :
           solver' = Loop([solver EXCEPT !.case = case, !.max_iter = max_iter,
                                         !.iter = 0,
                                         !.done = (case = "aligned")])
    /\ UNCHANGED <<dictvars, affvars, traitvars, unitvars, pathvars>>

\* one pass of the inner loop (lines 57-66)
AlignHalve ==
    /\ solver.pc = "inner"
    /\ ~solver.descended
    /\ solver.check < HalvingBudget
    /\ \/ /\ MayDescend(solver)
          /\ solver' = [solver EXCEPT !.descended = TRUE]
       \/ /\ MayNotDescend(solver)
          /\ solver' = [solver EXCEPT !.halvings = @ + 1, !.check = @ + 1]
    /\ UNCHANGED <<dictvars, affvars, traitvars, unitvars, pathvars>>

\* the inner loop left: lines 68-79 and the test of line 53
AlignStep ==
    /\ solver.pc = "inner"
    /\ solver.descended \/ solver.check >= HalvingBudget
    /\ IF raises(solver)
       THEN solver' = [solver EXCEPT !.pc = "end", !.err = "ValueError",
                                     !.exhausted = TRUE]
       ELSE \E settled \in {b \in BOOLEAN : b => MaySettle(solver)} :
                solver' = Loop([solver EXCEPT
                                   !.exhausted = @ \/ ~solver.descended,
                                   !.adopted = @ \/ ~solver.descended,
                                   !.done = settled,
                                   !.iter = @ + 1])
    /\ UNCHANGED <<dictvars, affvars, traitvars, unitvars, pathvars>>

\* return identity().rotate(np.degrees(this_th)).translate(tx, ty): the
\* angle and the translation are floats (lines 82-87)
align_return(reg) ==
    LET r == rotate(identity, Float(0), NoneQ, NoneQ, reg)
    IN  IF r.err # "none" THEN r ELSE translate(r, Float(0), Float(0))

AlignReturn ==
    /\ solver.pc = "return"
    /\ solver' = [solver EXCEPT !.pc = "end",
                                !.err = align_return(angledim).err,
                                !.result = align_return(angledim)]
    /\ UNCHANGED <<dictvars, affvars, traitvars, unitvars, pathvars>>

NextAlign ==
    \/ AlignCall
    \/ AlignHalve
    \/ AlignStep
    \/ AlignReturn

----------------------------------------------------------------------------
\* What an emission leaves under the root: the container's own node (element),
\* its id attribute (attrs), the children's nodes in the order they were
\* appended, and err, the exception the emission left with.
Emission(e, a, c, err) == [element |-> e, attrs |-> a, children |-> c, err |-> err]

NoEmission == Emission(FALSE, FALSE, <<>>, "none")

\* for child in self: self[child].create_element(element)
\* The generator yields current, the body looks the child up in the mapping
\* and appends its node, then the generator steps along next.
RECURSIVE EmitFrom(_, _, _, _)
EmitFrom(it, m, current, fuel) ==
    IF current = None THEN [keys |-> <<>>, err |-> "none"]
    ELSE IF fuel = 0 THEN [keys |-> <<>>, err |-> "cycle"]
    ELSE IF current \notin DOMAIN it THEN [keys |-> <<>>, err |-> "KeyError"]
    ELSE IF ~IsPart(it[current]) THEN [keys |-> <<>>, err |-> "AttributeError"]
    ELSE IF current \notin DOMAIN m THEN [keys |-> <<current>>, err |-> "KeyError"]
    ELSE LET rest == EmitFrom(it, m, m[current].next, fuel - 1)
         IN  [keys |-> <<current>> \o rest.keys, err |-> rest.err]

\* PartDict.create_element(root)
create_element(it, s) ==
    LET c == EmitFrom(it, s.map, s.head, Cardinality(DOMAIN s.map) + 1)
    IN  Emission(TRUE, TRUE, c.keys, c.err)

\* Drawing.save: the children go straight under the root element, each by
\* create_element(root, device_per_length=..., device_per_pixel=...); no
\* create_element takes these keywords, so the first child's call raises; a
\* first child that is no part has no create_element to call.
save(it, s) ==
    IF s.head = None THEN Emission(FALSE, FALSE, <<>>, "none")
    ELSE IF s.head \notin DOMAIN it THEN Emission(FALSE, FALSE, <<>>, "KeyError")
    ELSE IF ~IsPart(it[s.head]) THEN Emission(FALSE, FALSE, <<>>, "AttributeError")
    ELSE Emission(FALSE, FALSE, <<>>, "TypeError")

Call(op, key, anchor, val, r) ==
    [op |-> op, key |-> key, anchor |-> anchor, val |-> val, res |-> r.list.err,
     \* a move to an end repeated: the same call as the one before it
     rep |-> (op \in {"movetofront", "movetoback"} /\ last.op = op /\ last.key = key),
     \* the call changed what iteration yields
     chg |-> (iter(r.list) # iter(Cur))]

\* d = PartDict()
PartDictNew ==
    /\ items = [x \in {} |-> NoValue]
    /\ map = EmptyMap
    /\ head = None
    /\ tail = None
    /\ back = "unset"
    /\ front = "unset"
    /\ last = [op |-> "init", key |-> None, anchor |-> None, val |-> NoValue,
               res |-> "none", rep |-> FALSE, chg |-> FALSE]
    /\ hins = <<>>
    /\ tins = <<>>
    /\ insOnly = TRUE
    /\ emitted = NoEmission

Init ==
    /\ PartDictNew
    /\ AffineNew
    /\ angledim = "KeyError"
    /\ TraitsNew
    /\ UnitsNew
    /\ PathNew
    /\ AlignNew

\* The state after a call that gave r back.
Becomes(r) ==
    /\ UNCHANGED <<affvars, traitvars, unitvars, pathvars, alignvars>>
    /\ emitted' = NoEmission
    /\ items' = r.items
    /\ map' = r.list.map
    /\ head' = r.list.head
    /\ tail' = r.list.tail
    /\ back' = r.list.back
    /\ front' = r.list.front

\* container[key] = value. A part is stored under its own id, as add stores
\* it and as the tests do (d[p1.id] = p1); a value that is no part is tried
\* under every key.
SetItem ==
    \E key \in Keys, value \in Objects :
        /\ IsPart(value) => key = ObjId(value)
        /\ LET r == setitem(items, Cur, key, value)
           IN  /\ Becomes(r)
               /\ last' = Call("setitem", key, None, value, r)
               /\ UNCHANGED <<hins, tins, insOnly>>

Add ==
    \E part \in Objects :
        LET r == add(items, Cur, part)
        IN  /\ Becomes(r)
            /\ last' = Call("add", IF HasId(part) THEN ObjId(part) ELSE None,
                            None, part, r)
            /\ UNCHANGED <<hins, tins, insOnly>>

DelItem ==
    \E key \in Keys :
        LET r == delitem(items, Cur, key)
        IN  /\ Becomes(r)
            /\ last' = Call("delitem", key, None, NoValue, r)
            /\ UNCHANGED <<hins, tins, insOnly>>

Clear ==
    LET r == clear(items, Cur)
    IN  /\ Becomes(r)
        /\ last' = Call("clear", None, None, NoValue, r)
        /\ hins' = <<>>
        /\ tins' = <<>>
        /\ insOnly' = TRUE

MoveToFront ==
    \E key \in Keys :
        LET r == movetofront(items, Cur, key)
        IN  /\ Becomes(r)
            /\ last' = Call("movetofront", key, None, NoValue, r)
            /\ UNCHANGED <<hins, tins, insOnly>>

MoveToBack ==
    \E key \in Keys :
        LET r == movetoback(items, Cur, key)
        IN  /\ Becomes(r)
            /\ last' = Call("movetoback", key, None, NoValue, r)
            /\ UNCHANGED <<hins, tins, insOnly>>

MoveForward ==
    \E key \in Keys :
        LET r == moveforward(items, Cur, key)
        IN  /\ Becomes(r)
            /\ last' = Call("moveforward", key, None, NoValue, r)
            /\ UNCHANGED <<hins, tins, insOnly>>

MoveBackward ==
    \E key \in Keys :
        LET r == movebackward(items, Cur, key)
        IN  /\ Becomes(r)
            /\ last' = Call("movebackward", key, None, NoValue, r)
            /\ UNCHANGED <<hins, tins, insOnly>>

\* The list and the dict storage agree: iteration ends without an exception,
\* yields every key of the storage exactly once and no other key, and every
\* stored value is a part.
InSync ==
    LET order == iter(Cur)
    IN  /\ order.err = "none"
        /\ {order.keys[i] : i \in DOMAIN order.keys} = DOMAIN items
        /\ Len(order.keys) = Cardinality(DOMAIN items)
        /\ \A k \in DOMAIN items : IsPart(items[k])

\* The inherited methods are called on a container that is in sync; what
\* they leave behind is then used through the methods PartDict defines.

\* d.pop(key)
DictPop ==
    /\ InSync
    /\ \E key \in Keys :
        LET r == dict_pop(items, Cur, key)
        IN  /\ Becomes(r)
            /\ last' = Call("pop", key, None, NoValue, r)
            /\ UNCHANGED <<hins, tins, insOnly>>

\* d.popitem(), called when the dict storage holds one key or none: the pair
\* it removes is then known without the storage's own insertion order.
DictPopItem ==
    /\ InSync
    /\ Cardinality(DOMAIN items) <= 1
    /\ LET key == IF DOMAIN items = {} THEN None ELSE CHOOSE k \in DOMAIN items : TRUE
           r == dict_popitem(items, Cur, key)
       IN  /\ Becomes(r)
           /\ last' = Call("popitem", key, None, NoValue, r)
           /\ UNCHANGED <<hins, tins, insOnly>>

\* d.update({key: value}), with a part under its own id and a value that is
\* no part under every key, as SetItem gives them.
DictUpdate ==
    /\ InSync
    /\ \E key \in Keys, value \in Objects :
        /\ IsPart(value) => key = ObjId(value)
        /\ LET r == dict_update(items, Cur, key, value)
           IN  /\ Becomes(r)
               /\ last' = Call("update", key, None, value, r)
               /\ UNCHANGED <<hins, tins, insOnly>>

\* d.setdefault(key, value)
DictSetDefault ==
    /\ InSync
    /\ \E key \in Keys, value \in Objects :
        /\ IsPart(value) => key = ObjId(value)
        /\ LET r == dict_setdefault(items, Cur, key, value)
           IN  /\ Becomes(r)
               /\ last' = Call("setdefault", key, None, value, r)
               /\ UNCHANGED <<hins, tins, insOnly>>

\* The container driven through the methods PartDict defines: its mapping
\* interface and its move methods. (The methods it inherits from dict
\* unchanged are driven by NextDict.)
Next ==
    \/ SetItem
    \/ Add
    \/ DelItem
    \/ Clear
    \/ MoveToFront
    \/ MoveToBack
    \/ MoveForward
    \/ MoveBackward

Spec == Init /\ [][Next]_vars

\* The container filled and emptied through its mapping interface with the
\* methods it inherits from dict among the calls: items are stored by
\* __setitem__, update and setdefault and taken out by pop, popitem and clear.
\* (__delitem__ and the move methods are driven by Spec.)
NextDict ==
    \/ SetItem
    \/ Clear
    \/ DictPop
    \/ DictPopItem
    \/ DictUpdate
    \/ DictSetDefault

SpecDict == Init /\ [][NextDict]_vars

\* Emission reads the container and leaves it as it was.
Emitted(op, e) ==
    /\ emitted' = e
    /\ last' = Call(op, None, None, NoValue, Box(items, Raise(Cur, e.err)))

CreateElement ==
    LET e == create_element(items, Cur)
    IN  /\ Emitted("create_element", e)
        /\ UNCHANGED <<affvars, traitvars, unitvars, pathvars, alignvars>>
        /\ UNCHANGED <<items, map, head, tail, back, front, hins, tins, insOnly>>

Save ==
    LET e == save(items, Cur)
    IN  /\ Emitted("save", e)
        /\ UNCHANGED <<affvars, traitvars, unitvars, pathvars, alignvars>>
        /\ UNCHANGED <<items, map, head, tail, back, front, hins, tins, insOnly>>

\* The container driven as in Next, with update among the calls (the one way
\* a value that is no part gets into the storage), and emitted at any point.
NextEmit ==
    \/ Next
    \/ DictUpdate
    \/ CreateElement
    \/ Save

SpecEmit == Init /\ [][NextEmit]_vars

\* The Affine on its own, under each behaviour of the registry.
InitAffine ==
    /\ PartDictNew
    /\ AffineNew
    /\ angledim \in AngleDims
    /\ TraitsNew
    /\ UnitsNew
    /\ PathNew
    /\ AlignNew

SpecAffine == InitAffine /\ [][NextAffine]_vars

SpecFluent == InitAffine /\ [][NextFluent]_vars

\* A trait bundle or a Line constructed, then emitted.
SpecTraits == Init /\ [][NextTraits]_vars

\* The two conversions of units.py called on the quantities given.
SpecUnits == Init /\ [][NextUnits]_vars

\* A RawPath constructed or converted from a shape, changed and rendered.
SpecPath == Init /\ [][NextPath]_vars

\* A RawPath changed only by construction, item assignment, insert, append
\* and extend.
SpecPathCalls == Init /\ [][NextPathCalls]_vars

\* One call of two_point_align, step by step.
SpecAlign == Init /\ [][NextAlign]_vars

----------------------------------------------------------------------------
\* The list primitives called directly, as the unit tests of the list call
\* them: the dict storage is not involved. A key given to an insert is a key
\* the list does not hold (__setitem__ and the move methods guarantee it).

\* The record of the inserts made since the list was empty.
Inserted(atHead, atTail) ==
    /\ hins' = IF insOnly THEN hins \o atHead ELSE hins
    /\ tins' = IF insOnly THEN tins \o atTail ELSE tins
    /\ insOnly' = insOnly

Reordered ==
    /\ hins' = <<>>
    /\ tins' = <<>>
    /\ insOnly' = FALSE

ListInsertTail ==
    \E key \in Keys \ DOMAIN map :
        LET r == Box(items, list_insert_tail(Cur, key))
        IN  /\ Becomes(r)
            /\ last' = Call("list_insert_tail", key, None, NoValue, r)
            /\ IF r.list.err = "none" THEN Inserted(<<>>, <<key>>) ELSE Reordered

ListInsertHead ==
    \E key \in Keys \ DOMAIN map :
        LET r == Box(items, list_insert_head(Cur, key))
        IN  /\ Becomes(r)
            /\ last' = Call("list_insert_head", key, None, NoValue, r)
            /\ IF r.list.err = "none" THEN Inserted(<<key>>, <<>>) ELSE Reordered

ListRemove ==
    \E key \in Keys :
        LET r == Box(items, list_remove(Cur, key))
        IN  /\ Becomes(r)
            /\ last' = Call("list_remove", key, None, NoValue, r)
            /\ Reordered

ListInsertAfter ==
    \E key \in Keys \ DOMAIN map, after_key \in Keys :
        /\ key # after_key
        /\ LET r == Box(items, list_insert_after(Cur, key, after_key))
           IN  /\ Becomes(r)
               /\ last' = Call("list_insert_after", key, after_key, NoValue, r)
               /\ Reordered

ListInsertBefore ==
    \E key \in Keys \ DOMAIN map, before_key \in Keys :
        /\ key # before_key
        /\ LET r == Box(items, list_insert_before(Cur, key, before_key))
           IN  /\ Becomes(r)
               /\ last' = Call("list_insert_before", key, before_key, NoValue, r)
               /\ Reordered

ListMoveToHead ==
    \E key \in Keys :
        LET r == Box(items, list_movetohead(Cur, key))
        IN  /\ Becomes(r)
            /\ last' = Call("list_movetohead", key, None, NoValue, r)
            /\ Reordered

ListMoveToTail ==
    \E key \in Keys :
        LET r == Box(items, list_movetotail(Cur, key))
        IN  /\ Becomes(r)
            /\ last' = Call("list_movetotail", key, None, NoValue, r)
            /\ Reordered

ListMoveTowardsTail ==
    \E key \in Keys :
        LET r == Box(items, list_movetowardstail(Cur, key))
        IN  /\ Becomes(r)
            /\ last' = Call("list_movetowardstail", key, None, NoValue, r)
            /\ Reordered

ListMoveTowardsHead ==
    \E key \in Keys :
        LET r == Box(items, list_movetowardshead(Cur, key))
        IN  /\ Becomes(r)
            /\ last' = Call("list_movetowardshead", key, None, NoValue, r)
            /\ Reordered

NextList ==
    \/ ListInsertTail
    \/ ListInsertHead
    \/ ListRemove
    \/ ListInsertAfter
    \/ ListInsertBefore
    \/ ListMoveToHead
    \/ ListMoveToTail
    \/ ListMoveTowardsTail
    \/ ListMoveTowardsHead
    \/ Clear

SpecList == Init /\ [][NextList]_vars

----------------------------------------------------------------------------
\* What the properties are stated with.

\* Forward and reversed iteration of the container as it stands.
Order == iter(Cur)

RevOrder == reversed(Cur)

Reverse(seq) == [i \in 1..Len(seq) |-> seq[Len(seq) + 1 - i]]

SeqSet(seq) == {seq[i] : i \in DOMAIN seq}

Without(seq, k) == LET Keep(x) == x # k IN SelectSeq(seq, Keep)

IndexOf(seq, k) == CHOOSE i \in DOMAIN seq : seq[i] = k

\* seq with the keys at positions i and j exchanged.
Swapped(seq, i, j) ==
    [n \in DOMAIN seq |-> IF n = i THEN seq[j] ELSE IF n = j THEN seq[i] ELSE seq[n]]

\* seq with k placed right after position i (0: in front of all).
InsertedAt(seq, i, k) == SubSeq(seq, 1, i) \o <<k>> \o SubSeq(seq, i + 1, Len(seq))

\* The call left the dict storage and the list as they were.
ContainerUnchanged ==
    /\ items' = items
    /\ map' = map
    /\ head' = head
    /\ tail' = tail

Yields(keys) == [keys |-> keys, err |-> "none"]

----------------------------------------------------------------------------
\* C1: after every mutation the head and tail keys and the prev/next links
\* are consistent: the head has no prev, the tail has no next, a.next = b
\* exactly when b.prev = a, the chain from the head ends at the tail without
\* a cycle, its keys are exactly the keys of the mapping, and an empty
\* container has neither head nor tail.
C1_LinksConsistent ==
    /\ (DOMAIN items = {}) => (head = None /\ tail = None)
    /\ (head = None) <=> (tail = None)
    /\ head # None => (head \in DOMAIN map /\ map[head].prev = None)
    /\ tail # None => (tail \in DOMAIN map /\ map[tail].next = None)
    /\ \A a \in DOMAIN map, b \in DOMAIN map :
           (map[a].next = b) <=> (map[b].prev = a)
    /\ Order.err = "none"
    /\ Order.keys # <<>> => Order.keys[Len(Order.keys)] = tail
    /\ SeqSet(Order.keys) = DOMAIN items
    /\ DOMAIN map = DOMAIN items

\* C2: reversed iteration yields the reverse of what forward iteration
\* yields, and both end without an exception.
C2_ReversedIsReverse ==
    /\ Order.err = "none"
    /\ RevOrder.err = "none"
    /\ RevOrder.keys = Reverse(Order.keys)

\* C3: del container[key] raises KeyError and changes nothing when key is
\* absent; when key is present, iteration afterwards yields the keys it
\* yielded before without key, the others in the order they had, also when
\* key was the only key.
C3_DeleteRemovesKey ==
    [][last'.op = "delitem" =>
          IF last'.key \in DOMAIN items
          THEN /\ last'.res = "none"
               /\ Order' = Yields(Without(Order.keys, last'.key))
               /\ DOMAIN items' = DOMAIN items \ {last'.key}
          ELSE /\ last'.res = "KeyError"
               /\ ContainerUnchanged]_vars

\* C4: moveforward(key) / movebackward(key) on a present key exchanges key
\* with its neighbour toward the tail / the head and leaves the other keys
\* where they were; at the tail / head nothing changes; the keys iteration
\* yields are the same before and after, for a container of two keys too.
C4_StepSwapsNeighbours ==
    [][(last'.op \in {"moveforward", "movebackward"}
            /\ last'.key \in DOMAIN items /\ last'.key \in DOMAIN map
            /\ Order.err = "none") =>
          LET i == IndexOf(Order.keys, last'.key)
              j == IF last'.op = "moveforward" THEN i + 1 ELSE i - 1
          IN  /\ last'.res = "none"
              /\ Order' = Yields(IF j \in DOMAIN Order.keys
                                 THEN Swapped(Order.keys, i, j)
                                 ELSE Order.keys)
              /\ SeqSet(Order'.keys) = SeqSet(Order.keys)]_vars

\* C5: movetofront(key) makes key the last key of iteration and
\* movetoback(key) the first, the other keys keeping their order and the
\* key set staying the same; nothing changes when key is already at that
\* end; when key is absent the call raises KeyError and changes nothing.
\* A key is present when the order list holds it (part.py line 250).
C5_MoveToEnd ==
    [][last'.op \in {"movetofront", "movetoback"} =>
          IF last'.key \in DOMAIN map
          THEN LET others == Without(Order.keys, last'.key)
                   atEnd == IF last'.op = "movetofront"
                            THEN tail = last'.key ELSE head = last'.key
               IN  /\ last'.res = "none"
                   /\ Order' = Yields(IF last'.op = "movetofront"
                                      THEN others \o <<last'.key>>
                                      ELSE <<last'.key>> \o others)
                   /\ RevOrder' = Yields(Reverse(Order'.keys))
                   /\ DOMAIN map' = DOMAIN map
                   /\ items' = items
                   /\ atEnd => ContainerUnchanged
          ELSE /\ last'.res = "KeyError"
               /\ ContainerUnchanged]_vars

\* A movetofront that moved a key of a container of three or more keys.
C5_Witness ==
    /\ last.op = "movetofront"
    /\ last.res = "none"
    /\ last.chg
    /\ tail = last.key
    /\ Cardinality(DOMAIN map) >= 3

\* C6: _list_insert_after / _list_insert_before places the new key right
\* after / before the anchor in iteration and leaves the order of the keys
\* already there as it was, for every list of one key or more; when the
\* anchor is absent the call raises KeyError and the list is unchanged.
C6_InsertAtAnchor ==
    [][last'.op \in {"list_insert_after", "list_insert_before"} =>
          IF last'.anchor \in DOMAIN map
          THEN LET i == IndexOf(Order.keys, last'.anchor)
               IN  /\ last'.res = "none"
                   /\ Order' = Yields(InsertedAt(Order.keys,
                                 IF last'.op = "list_insert_after" THEN i ELSE i - 1,
                                 last'.key))
          ELSE /\ last'.res = "KeyError"
               /\ ContainerUnchanged]_vars

\* C7: setting a value under a key that is present (container[key] = part,
\* or add(part) with an id that is present) replaces the stored value and
\* changes neither the position of that key nor the order of the others.
C7_OverwriteKeepsOrder ==
    [][(last'.op \in {"setitem", "add"} /\ IsPart(last'.val)
            /\ last'.key \in DOMAIN items) =>
          /\ last'.res = "none"
          /\ items' = [items EXCEPT ![last'.key] = last'.val]
          /\ Order' = Order
          /\ RevOrder' = RevOrder
          /\ map' = map /\ head' = head /\ tail' = tail]_vars

\* A part set under a key that was present, in a container of two keys or
\* more: the call returned and iteration yields what it yielded before.
C7_Witness ==
    /\ last.op = "setitem"
    /\ last.res = "none"
    /\ ~last.chg
    /\ items[last.key] = last.val
    /\ Order = Yields(Order.keys)
    /\ Len(Order.keys) >= 2
    /\ Order.keys[1] = last.key

\* C8: n distinct keys inserted one after another into an empty container
\* are yielded in insertion order when inserted at the tail, in reverse
\* insertion order when inserted at the head, and for any mix of the two the
\* head-inserted keys in reverse insertion order come first, followed by the
\* tail-inserted keys in insertion order.
C8_InsertionOrder ==
    insOnly => /\ Order = Yields(Reverse(hins) \o tins)
               /\ RevOrder = Yields(Reverse(tins) \o hins)

\* Three inserts into an empty list, at the head and at the tail.
C8_Witness ==
    /\ insOnly
    /\ Len(hins) >= 1
    /\ Len(tins) >= 1
    /\ Len(hins) + Len(tins) >= 3
    /\ last.op \in {"list_insert_head", "list_insert_tail"}

\* C9: movetofront and movetoback are idempotent: the call made a second
\* time in a row, with the same key, leaves the iteration order the first
\* call left.
C9_MoveToEndIdempotent ==
    [][last'.rep => (Order' = Order /\ RevOrder' = RevOrder)]_vars

\* movetoback called twice in a row on a present key of a container of three
\* keys or more.
C9_Witness ==
    /\ last.op = "movetoback"
    /\ last.rep
    /\ last.res = "none"
    /\ head = last.key
    /\ Cardinality(DOMAIN map) >= 3

\* C10: container[key] = value with a value that is neither a PartBase nor
\* a PartDict raises TypeError and leaves the mapping and the order list
\* unchanged, so after any sequence of operations, those inherited from dict
\* among them, every value the container stores is a part or a nested
\* container.
C10_OnlyPartsStored ==
    /\ [](\A k \in DOMAIN items : IsPart(items[k]))
    /\ [][(last'.op = "setitem" /\ ~IsPart(last'.val)) =>
              (last'.res = "TypeError" /\ ContainerUnchanged)]_vars

----------------------------------------------------------------------------
\* C11: emission creates the container's node, sets its attributes, then
\* emits every child exactly once in the order forward iteration yields the
\* keys (create_element under the container's node, save under the root).
C11_EmitsChildrenInOrder ==
    last.op \in {"create_element", "save"} =>
        /\ emitted.err = "none"
        /\ last.op = "create_element" => emitted.element /\ emitted.attrs
        /\ emitted.children = Order.keys
        /\ SeqSet(emitted.children) = DOMAIN items
        /\ Len(emitted.children) = Cardinality(DOMAIN items)

----------------------------------------------------------------------------
\* M(op_n) ... M(op_1) for the operations op_1 .. op_n in call order
RECURSIVE ProductOf(_)
ProductOf(ops) ==
    IF ops = <<>> THEN Identity3
    ELSE matmul(ops[Len(ops)].m, ProductOf(SubSeq(ops, 1, Len(ops) - 1)))

\* The point (p, q) taken through the operations one after the other, the
\* earliest call first.
RECURSIVE ApplyInOrder(_, _, _)
ApplyInOrder(ops, p, q) ==
    IF ops = <<>> THEN [p |-> p, q |-> q]
    ELSE LET r == MatVec(ops[1].m, p, q)
         IN  ApplyInOrder(Tail(ops), r.p, r.q)

\* Every operation in the chain was put there by a fluent call that returned.
BuiltFluently == Len(calls) = Len(operations)

\* The operation rotate(90 deg) puts in the chain: a quarter turn about the
\* origin, with no unit.
QuarterTurn ==
    [kind |-> "Rotate", m |-> Whole3(<< <<0, -1, 0>>, <<1, 0, 0>>, <<0, 0, 1>> >>), u |-> "None"]

\* C12: for an Affine built by the fluent calls op_1 .. op_n in that order,
\* the matrix built from the chain is M(op_n) ... M(op_1), and a point is
\* transformed as by applying the operations earliest call first; in
\* particular identity().translate(1 mm, 0 mm).rotate(90 deg) is built, the
\* rotation the second operation of the chain, and takes (0, 0) to (0, 1 mm).
C12_MatrixOrder ==
    [][/\ (/\ \/ alast'.op = "build_matrix"
              \/ alast'.op \in {"matrix", "transform"} /\ matrix = NoMatrix
           /\ BuiltFluently) =>
              /\ matrix' = ProductOf(calls)
              /\ (/\ alast'.op = "transform"
                  /\ alast'.form = "scalar"
                  /\ alast'.res = "none"
                  /\ units \in {"None", alast'.u[1].u}) =>
                     LET r == ApplyInOrder(calls, alast'.u[1].m, alast'.v[1].m)
                     IN  /\ alast'.out.x[1].m = r.p
                         /\ alast'.out.y[1].m = r.q
              /\ (/\ alast'.op = "transform"
                  /\ alast'.form = "scalar"
                  /\ calls = <<Translate(Q(1, "mm"), Q(0, "mm")).op, QuarterTurn>>
                  /\ alast'.u = <<Q(0, "mm")>>
                  /\ alast'.v = <<Q(0, "mm")>>) =>
                     /\ alast'.out.x = <<Q(0, "mm")>>
                     /\ alast'.out.y = <<Q(1, "mm")>>
       /\ (/\ BuiltFluently
           /\ calls = <<Translate(Q(1, "mm"), Q(0, "mm")).op>>
           /\ alast'.op = "rotate"
           /\ alast'.angle = Q(90, "deg")
           /\ alast'.x = NoneQ
           /\ alast'.y = NoneQ) =>
              /\ alast'.res = "none"
              /\ calls' = <<Translate(Q(1, "mm"), Q(0, "mm")).op, QuarterTurn>>]_vars

----------------------------------------------------------------------------
\* C13: once the matrix has been built no fluent call changes the operation
\* chain, so a cached matrix is always the product of the current chain (the
\* chain __str__ renders).
C13_ImmutableOnceBuilt ==
    /\ [](matrix # NoMatrix => matrix = BuildFrom(Identity3, operations, 1))
    /\ [][matrix # NoMatrix => operations' = operations]_vars

----------------------------------------------------------------------------
\* x and y are the lengths of a length-bearing operation: two quantities of
\* one length, pixel or device unit.
LengthArgs(x, y) ==
    /\ IsQuantity(x)
    /\ IsQuantity(y)
    /\ x.u = y.u
    /\ Dimension(x.u) \in {"[length]", "[pixel]", "[device]"}

\* C14: once the Affine has a unit, a later translate or rotate with an
\* origin succeeds when its lengths are in that unit and fails with
\* ValueError when they are in another.
C14_UnitEstablished ==
    [][(/\ units # "None"
        /\ alast'.op \in {"translate", "rotate"}
        /\ LengthArgs(alast'.x, alast'.y)) =>
           alast'.res = IF alast'.x.u = units THEN "none" ELSE "ValueError"]_vars

----------------------------------------------------------------------------
\* C15: rotate by an angle fails with ValueError when exactly one of x and y
\* is given; it is accepted when neither is given, and when both are given
\* in one length, pixel or device unit: then the rotation is put in the chain
\* and the origin's unit becomes the unit of an Affine that had none.
C15_RotateOrigin ==
    [][(alast'.op = "rotate" /\ alast'.angle.u = "deg") =>
          /\ (alast'.x = NoneQ) # (alast'.y = NoneQ) => alast'.res = "ValueError"
          /\ (alast'.x = NoneQ /\ alast'.y = NoneQ) =>
                 /\ alast'.res = "none"
                 /\ Len(operations') = Len(operations) + 1
          /\ (LengthArgs(alast'.x, alast'.y) /\ units \in {"None", alast'.x.u}) =>
                 /\ alast'.res = "none"
                 /\ Len(operations') = Len(operations) + 1
                 /\ operations'[1].kind = "Rotate"
                 /\ units' = alast'.x.u]_vars

----------------------------------------------------------------------------
\* Two quantities are equal as pint compares them: the same dimension and
\* the same size once both are in one unit.
SameQ(a, b) ==
    /\ Dimension(a.u) = Dimension(b.u)
    /\ RatMul(a.m, Factor(a.u)) = RatMul(b.m, Factor(b.u))

\* C16: transform gives the same result for each point whether the points
\* come as scalars, as arrays or as lists; points in another unit of the
\* transform's dimension are converted to the transform's unit and the
\* results are in that unit.
C16_FormsAgree ==
    \A pt \in Points :
        Len(pt.u) = Len(pt.v) =>
            LET A == transform(AffCur, "array", pt.u, pt.v)
                L == transform(AffCur, "list", pt.u, pt.v)
            IN  /\ A.err = L.err
                /\ A.err = "none" =>
                       \A i \in 1..Len(pt.u) :
                           LET S == transform(AffCur, "scalar", <<pt.u[i]>>, <<pt.v[i]>>)
                           IN  /\ S.err = "none"
                               /\ SameQ(S.x[1], A.x[i]) /\ SameQ(S.y[1], A.y[i])
                               /\ SameQ(S.x[1], L.x[i]) /\ SameQ(S.y[1], L.y[i])
                               /\ units # "None" =>
                                      /\ S.x[1].u = units /\ A.x[i].u = units
                                      /\ L.x[i].u = units

----------------------------------------------------------------------------
\* a x + c y + e for whole a, c, e and fractions x, y
Lin(a, x, c, y, e) == RatAdd(RatAdd(RatMul(Whole(a), x), RatMul(Whole(c), y)), Whole(e))

\* C17: an Affine holding the single operation sixmatrix(a, b, c, d, e, f)
\* takes every point (x, y), its coordinates quantities, to (a x + c y + e, b x + d y + f); with
\* sixmatrix(3, 1, -1, 3, 30, 40): (10, 10) to (50, 80), (40, 10) to
\* (140, 110), (10, 30) to (30, 140) and (40, 30) to (120, 170).
C17_SixMatrix ==
    [][\A p \in SixMatrixArgs :
          (/\ matrix = NoMatrix
           /\ operations = <<SixMatrix(p[1], p[2], p[3], p[4], p[5], p[6]).op>>
           /\ alast'.op = "transform"
           /\ Len(alast'.u) = Len(alast'.v)
           /\ \A i \in 1..Len(alast'.u) :
                  IsQuantity(alast'.u[i]) /\ IsQuantity(alast'.v[i])) =>
              /\ alast'.res = "none"
              /\ \A i \in 1..Len(alast'.u) :
                    LET x == alast'.u[i].m
                        y == alast'.v[i].m
                    IN  /\ alast'.out.x[i] = QR(Lin(p[1], x, p[3], y, p[5]), alast'.u[i].u)
                        /\ alast'.out.y[i] = QR(Lin(p[2], x, p[4], y, p[6]), alast'.v[i].u)
              /\ (/\ p = <<3, 1, -1, 3, 30, 40>>
                  /\ alast'.u = <<Q(10, "mm"), Q(40, "mm"), Q(10, "mm"), Q(40, "mm")>>
                  /\ alast'.v = <<Q(10, "mm"), Q(10, "mm"), Q(30, "mm"), Q(30, "mm")>>) =>
                     /\ alast'.out.x = <<Q(50, "mm"), Q(140, "mm"), Q(30, "mm"), Q(120, "mm")>>
                     /\ alast'.out.y = <<Q(80, "mm"), Q(110, "mm"), Q(140, "mm"), Q(170, "mm")>>]_vars

\* sixmatrix(3, 1, -1, 3, 30, 40) alone has transformed the four points
C17_Witness ==
    /\ operations = <<SixMatrix(3, 1, -1, 3, 30, 40).op>>
    /\ matrix = SixMatrix(3, 1, -1, 3, 30, 40).op.m
    /\ alast.op = "transform"
    /\ alast.u = <<Q(10, "mm"), Q(40, "mm"), Q(10, "mm"), Q(40, "mm")>>
    /\ alast.v = <<Q(10, "mm"), Q(10, "mm"), Q(30, "mm"), Q(30, "mm")>>
    /\ alast.out.x = <<Q(50, "mm"), Q(140, "mm"), Q(30, "mm"), Q(120, "mm")>>
    /\ alast.out.y = <<Q(80, "mm"), Q(110, "mm"), Q(140, "mm"), Q(170, "mm")>>

----------------------------------------------------------------------------
\* The entity was constructed and its set_element_attributes has run.
WasEmitted(kinds) == entity.kind \in kinds /\ entity.err = "none" /\ element.set

\* C18: every value of a wrong type or a wrong dimension is rejected by the
\* constructor, so set_element_attributes of a constructed entity never
\* raises a validation error; no constructed Line holds an angle as a
\* coordinate and no constructed Stroke an angle as dash offset or dash.
C18_ValidationAtConstruction ==
    /\ WasEmitted(Kinds) => element.err # "ValueError"
    /\ (entity.kind = "Line" /\ entity.err = "none") =>
           \A c \in {"x1", "y1", "x2", "y2"} : Dimension(entity.fields[c].u) # "[]"
    /\ (entity.kind = "Stroke" /\ entity.err = "none") =>
           /\ Dimension(entity.fields["stroke_dash_offset"].u) # "[]"
           /\ \A i \in 1..Len(entity.fields["stroke_dash_array"].l) :
                  Dimension(entity.fields["stroke_dash_array"].l[i].u) # "[]"

----------------------------------------------------------------------------
Bundles == Kinds \ {"Line"}

\* the keys of the fields a keyword was given for
SuppliedKeys == {Key(f) : f \in DOMAIN entity.args}

\* the keys of the fields that hold a value after construction
HeldKeys == {Key(f) : f \in {g \in FieldSet(entity.kind) : entity.fields[g] # NoneV}}

\* C19 as stated: a bundle writes exactly the attributes of the fields
\* supplied at construction, and none when constructed with no arguments
\* (looked at where set_element_attributes returned).
C19_OnlySuppliedWritten ==
    (WasEmitted(Bundles) /\ element.err = "none") =>
        /\ DOMAIN element.attrib = SuppliedKeys
        /\ DOMAIN element.attrib \subseteq OwnedKeys(entity.kind)

\* C19, amended: a bundle writes only keys it owns and only for fields that
\* hold a value, which are the fields supplied and Fill's fill, "none" by
\* default; when set_element_attributes returns it has written exactly
\* those, so Fill() writes fill = "none" and every other bundle constructed
\* with no arguments writes nothing.
C19_OnlyHeldWritten ==
    WasEmitted(Bundles) =>
        /\ DOMAIN element.attrib \subseteq HeldKeys
        /\ HeldKeys \subseteq OwnedKeys(entity.kind)
        /\ HeldKeys = SuppliedKeys \cup (IF entity.kind = "Fill" THEN {"fill"} ELSE {})
        /\ element.err = "none" => DOMAIN element.attrib = HeldKeys
        /\ DOMAIN entity.args = {} =>
               element.attrib = IF entity.kind = "Fill" THEN ("fill" :> Str("none"))
                                ELSE NoAttrib

\* Fill() has written fill = "none" and nothing else
C19_Witness ==
    /\ WasEmitted({"Fill"})
    /\ DOMAIN entity.args = {}
    /\ element.attrib = ("fill" :> Str("none"))

----------------------------------------------------------------------------
\* x clamped into [0, 1], in tenths
Clamped(x) == IF x > OpacityMax THEN OpacityMax ELSE IF x < 0 THEN 0 ELSE x

\* C20: a float opacity given to Stroke or Fill is never rejected; what is
\* stored and what is written is the value clamped into [0, 1].
C20_OpacityClamped ==
    \A f \in {"stroke_opacity", "fill_opacity"} :
        (f \in DOMAIN entity.args /\ entity.args[f].t = "float") =>
            /\ \/ entity.err = "none"
               \/ \E g \in DOMAIN entity.args \ {f} : Check(g, entity.args[g]) # "none"
            /\ entity.err = "none" =>
                   entity.fields[f] = Flt(Clamped(entity.args[f].m))
            /\ (element.set /\ Key(f) \in DOMAIN element.attrib) =>
                   element.attrib[Key(f)] = Val("str", Clamped(entity.args[f].m), "")
            /\ (element.set /\ element.err = "none") => Key(f) \in DOMAIN element.attrib

\* Stroke(stroke_opacity=1.1) has written stroke-opacity = 1.0
C20_Witness ==
    /\ WasEmitted({"Stroke"})
    /\ "stroke_opacity" \in DOMAIN entity.args
    /\ entity.args["stroke_opacity"] = Flt(11)
    /\ entity.fields["stroke_opacity"] = Flt(OpacityMax)
    /\ element.attrib["stroke-opacity"] = Val("str", OpacityMax, "")

----------------------------------------------------------------------------
\* a string as its characters
Chars10_000000 == <<"1", "0", ".", "0", "0", "0", "0", "0", "0">>

\* C21: _scale(v, device_per_length, device_per_pixel) returns
\* v * device_per_length in device units for a length, v * device_per_pixel in
\* device units for a pixel quantity, and raises ValueError for every other
\* dimension; 1 inch at 72 device/inch is 72 device.
C21_ScaleToDevice ==
    conversion.op = "_scale" =>
        LET v == conversion.v
            dpl == conversion.dpl
            dpp == conversion.dpp
        IN  /\ pint_check(v, "[length]") =>
                /\ conversion.err = "none"
                /\ conversion.q = pint_to(QuantityMul(v, dpl), Unit("device")).q
                /\ conversion.q.unit = Unit("device")
            /\ pint_check(v, "[pixel]") =>
                /\ conversion.err = "none"
                /\ conversion.q = Quantity(RatMul(v.mag, dpp.mag), Unit("device"))
            /\ (~pint_check(v, "[length]") /\ ~pint_check(v, "[pixel]")) =>
                conversion.err = "ValueError"
            /\ (/\ v = Quantity(Rat(1, 1), Unit("inch"))
                /\ dpl = Quantity(Rat(72, 1), Per(Unit("device"), Unit("inch")))) =>
                   conversion.q = Quantity(Rat(72, 1), Unit("device"))
            /\ (/\ v = Quantity(Rat(1, 1), Unit("cm"))
                /\ dpl = Quantity(Rat(10, 1), Per(Unit("device"), Unit("mm")))) =>
                   conversion.q = Quantity(Rat(100, 1), Unit("device"))
            /\ (/\ v = Quantity(Rat(10, 1), Unit("mm"))
                /\ dpl = Quantity(Rat(72, 1), Per(Unit("device"), Unit("inch")))) =>
                   conversion.q = Quantity(Rat(3600, 127), Unit("device"))

\* 1 inch was scaled at 72 device/inch
C21_Witness ==
    /\ conversion.op = "_scale"
    /\ conversion.v = Quantity(Rat(1, 1), Unit("inch"))
    /\ conversion.dpl = Quantity(Rat(72, 1), Per(Unit("device"), Unit("inch")))
    /\ conversion.err = "none"
    /\ conversion.q = Quantity(Rat(72, 1), Unit("device"))

\* C22: _tostr(q) returns exactly when q is a length, a pixel quantity or a
\* percentage, and then gives the numeral with six decimals followed at once
\* by the unit's suffix, with no whitespace; every other dimension raises
\* ValueError. 10 px gives "10.000000px", 10 percent gives "10.000000%".
C22_TostrFormat ==
    conversion.op = "_tostr" =>
        LET q == conversion.v
            t == conversion.text
            ok == \E d \in {"[length]", "[pixel]", "[percentage]"} :
                      dimensionality(q.unit)
                          = [x \in Dimensions |-> IF x = d THEN 1 ELSE 0]
        IN  /\ (conversion.err = "none") <=> ok
            /\ ~ok => conversion.err = "ValueError"
            /\ ok =>
                /\ t = format_f(q.mag) \o UnitSymbol(q.unit)
                /\ \A i \in 1..Len(t) : t[i] # " "
                /\ \E k \in 1..Len(t) :
                       /\ t[k] = "."
                       /\ \A i \in 1..Decimals :
                              t[k + i] \in {ToString(n) : n \in 0..9}
                       /\ SubSeq(t, k + Decimals + 1, Len(t)) = UnitSymbol(q.unit)
            /\ q = Quantity(Rat(10, 1), Unit("px")) =>
                   t = Chars10_000000 \o <<"p", "x">>
            /\ q = Quantity(Rat(10, 1), Unit("percent")) =>
                   t = Chars10_000000 \o <<"%">>

\* 10 px was rendered
C22_Witness ==
    /\ conversion.op = "_tostr"
    /\ conversion.v = Quantity(Rat(10, 1), Unit("px"))
    /\ conversion.err = "none"
    /\ conversion.text = Chars10_000000 \o <<"p", "x">>

\* C23: _tostr renders a metric length in millimetres whatever unit it was
\* made with: 1 cm gives "10.000000mm", the string 10 mm gives.
C23_TostrMillimetres ==
    (/\ conversion.op = "_tostr"
     /\ conversion.v.unit \in {Unit("mm"), Unit("cm")}) =>
        /\ conversion.err = "none"
        /\ conversion.text
               = _tostr(pint_to(conversion.v, Unit("mm")).q).text
        /\ conversion.v = Quantity(Rat(1, 1), Unit("cm")) =>
               conversion.text = Chars10_000000 \o <<"m", "m">>

----------------------------------------------------------------------------
\* C24: after every construction, item assignment, insert, append and extend
\* each member of the RawPath is a path command; a call given a member that
\* is not a command raises ValueError and leaves the contents as they were.
C24_OnlyCommands ==
    [][/\ \A i \in 1..Len(path'.items) : IsCommand(path'.items[i])
       /\ (/\ pcall'.op \in {"init", "setitem", "insert", "append", "extend"}
           /\ pcall'.bad) =>
              /\ pcall'.err = "ValueError"
              /\ path' = path]_vars

\* an append of an object that is not a command was refused by a path that
\* holds commands
C24_Witness ==
    /\ path.made
    /\ Len(path.items) >= 1
    /\ pcall.op = "append"
    /\ pcall.bad
    /\ pcall.err = "ValueError"

\* C25: to_svg returns the commands' tokens in the order of the list,
\* consecutive tokens separated by exactly one space, followed by " Z"
\* exactly when the path is closed, for every command class.
C25_SingleSpaces ==
    pcall.op = "to_svg" =>
        LET t == Tokens(path, DefaultPerLength, DefaultPerPixel)
            s == pcall.text
        IN  /\ pcall.err = "none"
            /\ s = join(<<" ">>, [i \in 1..Len(t) |-> t[i].text])
                       \o (IF path.closed THEN <<" ", "Z">> ELSE <<>>)
            /\ \A i \in 1..(Len(s) - 1) : ~(s[i] = " " /\ s[i + 1] = " ")

\* the i-th vertex of a shape
Vertex(s, i) == <<s.x[i], s.y[i]>>

\* C26: to_path gives for a Line the open path [MoveTo(start), LineTo(end)],
\* for a Polyline of n vertices the open path of n commands MoveTo(v1),
\* LineTo(v2..vn), for a Polygon of n vertices the closed path of n + 1
\* commands ending in LineTo(v1), and for a Rect without radius the closed
\* path MoveTo(x, y), HlineToDelta(w), VlineToDelta(h), HlineToDelta(-w),
\* VlineToDelta(-h).
C26_ShapeToPath ==
    [][pcall'.op = "to_path" =>
          LET s == pcall'.shape
              p == path'
              n == Len(s.x)
          IN  /\ p.made
              /\ s.cls = "Line" =>
                     /\ ~p.closed
                     /\ p.items = <<Command("MoveTo", Vertex(s, 1)),
                                    Command("LineTo", Vertex(s, 2))>>
              /\ s.cls = "Polyline" =>
                     /\ ~p.closed
                     /\ Len(p.items) = n
                     /\ p.items[1] = Command("MoveTo", Vertex(s, 1))
                     /\ \A i \in 2..n : p.items[i] = Command("LineTo", Vertex(s, i))
              /\ s.cls = "Polygon" =>
                     /\ p.closed
                     /\ Len(p.items) = n + 1
                     /\ p.items[1] = Command("MoveTo", Vertex(s, 1))
                     /\ \A i \in 2..n : p.items[i] = Command("LineTo", Vertex(s, i))
                     /\ p.items[n + 1] = Command("LineTo", Vertex(s, 1))
              /\ s.cls = "Rect" =>
                     /\ p.closed
                     /\ Len(p.items) = 5
                     /\ p.items[1] = Command("MoveTo", Vertex(s, 1))
                     /\ p.items[2] = Command("HlineToDelta", <<s.width[1]>>)
                     /\ p.items[3] = Command("VlineToDelta", <<s.height[1]>>)
                     /\ p.items[4].cls = "HlineToDelta"
                     /\ p.items[4].args[1].mag = Rat(-s.width[1].mag.n, s.width[1].mag.d)
                     /\ p.items[5].cls = "VlineToDelta"
                     /\ p.items[5].args[1].mag = Rat(-s.height[1].mag.n, s.height[1].mag.d)
              /\ s = RectShape(Px(0), Px(0), Px(50), Px(50)) =>
                     p.items = <<Command("MoveTo", <<Px(0), Px(0)>>),
                                 Command("HlineToDelta", <<Px(50)>>),
                                 Command("VlineToDelta", <<Px(50)>>),
                                 Command("HlineToDelta", <<Px(-50)>>),
                                 Command("VlineToDelta", <<Px(-50)>>)>>]_vars

\* Rect(0, 0, 50, 50) was converted
C26_Witness ==
    /\ pcall.op = "to_path"
    /\ pcall.shape = RectShape(Px(0), Px(0), Px(50), Px(50))
    /\ path.closed
    /\ Len(path.items) = 5

----------------------------------------------------------------------------
\* C27: two_point_align raises ValueError whenever an inner step-halving
\* search uses up its ten halvings without finding a step that lowers the
\* cost; it never takes a step that does not descend as the next angle and
\* never returns a result after such a search.
C27_NonConvergence ==
    /\ ~solver.adopted
    /\ solver.exhausted => (solver.pc = "end" /\ solver.err = "ValueError")

\* C28: when the search converges two_point_align returns without raising,
\* and the Affine returned holds a rotation added first and a translation
\* added second.
C28_ReturnsRotateTranslate ==
    (solver.pc = "end" /\ ~solver.exhausted) =>
        /\ solver.err = "none"
        /\ Len(solver.result.operations) = 2
        /\ solver.result.operations[1].kind = "Translate"
        /\ solver.result.operations[2].kind = "Rotate"


\* C29: every mutation through the mapping interface, the inherited pop,
\* popitem, update and setdefault included, keeps the list and the mapping in
\* sync: called on a container whose iteration yields each key of the mapping
\* exactly once and whose values are all parts, an inherited method that
\* returns leaves a container of which the same is true.
C29_InheritedKeepInSync ==
    [][(last'.op \in {"pop", "popitem", "update", "setdefault"}
            /\ last'.res = "none" /\ InSync) => InSync']_vars

\* C30: a fluent call that fails leaves the Affine unchanged: when translate
\* or rotate raises, the operation chain, the established unit and the cached
\* matrix are the ones of before the call.
C30_FailedCallLeavesUnchanged ==
    [][(alast'.op \in {"translate", "rotate"} /\ alast'.res # "none")
           => /\ operations' = operations
              /\ units' = units
              /\ matrix' = matrix]_vars

====
